---- MODULE Spec2Model ----
(***************************************************************************)
(* safeall: one-way backup, sync and restore of a directory tree.          *)
(*                                                                         *)
(* The model follows safeall-core/src/lib.rs.  The state is the file       *)
(* system (two disjoint trees, the roots "S" and "D"), the position of     *)
(* `run` in its phases, the walker (RecursiveReadDir) that drives the      *)
(* current phase, the error vector being collected, the messages handed    *)
(* to the MessageSender and the result of `run`.                           *)
(*                                                                         *)
(* Paths are sequences of components, the first one being the root.        *)
(* Whether a directory can be listed is an attribute of the directory      *)
(* (`readable`); every other fallible call (create_dir, copy, get_hash,    *)
(* set_modified, remove_dir_all, remove_file, create_dir_all) takes its    *)
(* outcome from the environment, drawn with \E in the action that makes    *)
(* the call, and so does read_dir when the purge lists the trees a second  *)
(* time.  A failed call leaves the file system as it was.  The files of a  *)
(* phase are handled one at a time, in the order of the walker.            *)
(***************************************************************************)
EXTENDS Naturals, Sequences, FiniteSets, TLC

VARIABLES
    fs,         \* file system: absolute path -> entry
    pc,         \* position of run(): "idle", "validate", ..., "done"
    cmd,        \* the Command being run
    rd,         \* the RecursiveReadDir driving the current loop
    errors,     \* `errors` of backup() and of the purge
    fileErrors, \* the errors collected by the file stream of the current phase
    unreach,    \* non_exsting_destination_directories of backup()
    todo,       \* dirs_to_delete / files_to_delete still to be processed
    deleted,    \* deleted_dirs of purge_files_and_dirs_in_destination
    msgs,       \* every Message sent to the MessageSender in this run
    result,     \* what run() returned
    produced,   \* every ProcessPathError pushed to an error vector in this run
    runs,       \* the finished runs of this session, oldest first
    fsStart,    \* the file system when the current run was invoked
    assertOk,   \* no debug_assert! of the code has been false in this run
    faults,     \* how many calls the environment has made fail in this session
    yielded,    \* the items a walker iterated on its own has returned, in order
    inflight,   \* the files whose futures the buffer of the current stream holds
    cpus        \* what cpu_count() returns

vars == <<fs, pc, cmd, rd, errors, fileErrors, unreach, todo, deleted, msgs, result,
          produced, runs, fsStart, assertOk, faults, yielded, inflight, cpus>>

(***************************************************************************)
(* Bounds of the model.                                                    *)
(***************************************************************************)
MaxContent == 3
MaxTime == 2
\* the environment makes at most MaxFaults calls fail in a session
MaxFaults == 2

Contents == 1..MaxContent
Times == 1..MaxTime

(***************************************************************************)
(* Paths.                                                                  *)
(***************************************************************************)
SRoot == <<"S">>
DRoot == <<"D">>
Roots == {SRoot, DRoot}

\* The relative paths of the model: a, b and b/c.
RelPaths == {<<"a">>, <<"b">>, <<"b", "c">>}

AllPaths == Roots \cup {r \o p : r \in Roots, p \in RelPaths}

NoPath == <<>>

\* Path::starts_with: component-wise prefix.
StartsWith(p, d) ==
    /\ Len(d) <= Len(p)
    /\ SubSeq(p, 1, Len(d)) = d

\* a variant that strips a root from nothing but the root itself
CanStripOnlyRoot(p, root) == p = root

\* Path::strip_prefix
CanStrip(p, root) == StartsWith(p, root)
StripPrefix(p, root) == SubSeq(p, Len(root) + 1, Len(p))

\* [root, rel].iter().collect()
Join(root, rel) == root \o rel

Parent(p) == SubSeq(p, 1, Len(p) - 1)

\* rank of a path component in the order of Path's Ord (byte order of names)
Rank(c) ==
    CASE c = "D" -> 1
      [] c = "S" -> 2
      [] c = "a" -> 3
      [] c = "b" -> 4
      [] c = "c" -> 5
      [] c = "d" -> 6
      [] c = "e" -> 7

RECURSIVE PathLess(_, _)
PathLess(p, q) ==
    IF p = <<>> THEN q # <<>>
    ELSE IF q = <<>> THEN FALSE
    ELSE IF Head(p) = Head(q) THEN PathLess(Tail(p), Tail(q))
    ELSE Rank(Head(p)) < Rank(Head(q))

\* a variant that sorts in descending order
RECURSIVE SortPathsDescending(_)
SortPathsDescending(set) ==
    IF set = {} THEN <<>>
    ELSE LET m == CHOOSE x \in set : \A y \in set \ {x} : PathLess(y, x)
         IN <<m>> \o SortPathsDescending(set \ {m})

\* Vec::sort of a set of distinct paths
RECURSIVE SortPaths(_)
SortPaths(set) ==
    IF set = {} THEN <<>>
    ELSE LET m == CHOOSE x \in set : \A y \in set \ {x} : PathLess(x, y)
         IN <<m>> \o SortPaths(set \ {m})

(***************************************************************************)
(* File system entries.                                                    *)
(***************************************************************************)
Absent == [kind |-> "none", content |-> 0, modified |-> 0, readable |-> TRUE]
File(c, t) == [kind |-> "file", content |-> c, modified |-> t, readable |-> TRUE]
Dir(r) == [kind |-> "dir", content |-> 0, modified |-> 0, readable |-> r]
\* a slot of a directory listing for which reading the entry fails
Broken == [kind |-> "broken", content |-> 0, modified |-> 0, readable |-> TRUE]

Exists(f, p) == f[p].kind # "none"
IsDir(f, p) == f[p].kind = "dir"
IsFile(f, p) == f[p].kind = "file"

\* metadata.len(): two contents may have the same length
Length(c) == (c + 1) \div 2

\* the paths at and below a root
Under(root) == {p \in AllPaths : StartsWith(p, root)}

(***************************************************************************)
(* The file systems a session starts from.  The code relates a file only   *)
(* to its counterpart under the other root (same relative path), and only  *)
(* by equality of content, length and modification time; so the files of   *)
(* S are all File(1, 1), and the file of D at a differs from it in content *)
(* (of the same length or not) or in time, or in nothing; the other files  *)
(* of D are File(1, 1).  A root is missing, a file, or a directory; a is a *)
(* file or an empty directory; b and b/c may be directories that cannot be  *)
(* listed.                                                                 *)
(***************************************************************************)
FilesAt(root, rel) ==
    IF root = DRoot /\ rel = <<"a">>
    THEN {File(c, 1) : c \in Contents} \cup {File(1, t) : t \in Times}
    ELSE {File(1, 1)}

EntriesAt(root, rel) ==
    CASE rel = <<>> -> {Absent, File(1, 1), Dir(TRUE), Dir(FALSE)}
      [] rel = <<"a">> -> {Absent, Dir(TRUE)} \cup FilesAt(root, rel)
      [] rel = <<"b">> -> {Absent, Dir(TRUE), Dir(FALSE)} \cup FilesAt(root, rel)
      [] rel = <<"b", "c">> -> {Absent, Dir(TRUE), Dir(FALSE)} \cup FilesAt(root, rel)

\* an entry below a root exists only inside a directory that can be listed
WellFormed(t, root) ==
    \A p \in Under(root) \ {root} :
        Exists(t, p) => (IsDir(t, Parent(p)) /\ t[Parent(p)].readable)

\* every tree a root can hold
Trees(root) ==
    {t \in {(root :> er) @@ (Join(root, <<"a">>) :> ea)
                @@ (Join(root, <<"b">>) :> eb)
                @@ (Join(root, <<"b", "c">>) :> ec) :
                er \in EntriesAt(root, <<>>), ea \in EntriesAt(root, <<"a">>),
                eb \in EntriesAt(root, <<"b">>), ec \in EntriesAt(root, <<"b", "c">>)} :
        WellFormed(t, root)}

FileSystems == {ts @@ td : ts \in Trees(SRoot), td \in Trees(DRoot)}

(***************************************************************************)
(* Messages and errors.                                                    *)
(***************************************************************************)
\* Message: type is Warning, Info, Start, Increment or End
Msg(type, what, a, b, n) ==
    [type |-> type, what |-> what, source |-> a, destination |-> b, total |-> n]

Warning(what, a, b) == Msg("Warning", what, a, b, 0)
Info(what, a, b) == Msg("Info", what, a, b, 0)
ProgressStart(n, what) == Msg("Start", what, NoPath, NoPath, n)
Increment(what, a, b) == Msg("Increment", what, a, b, 0)
ProgressEnd(what) == Msg("End", what, NoPath, NoPath, 0)

\* ProcessPathError { not_processed, kind }; `at` is the path the kind carries
\* (destination, to, in_dir)
PPE(np, kind, at) == [not_processed |-> np, kind |-> kind, at |-> at]

\* Result<(), Error>
NoResult == [kind |-> "none", errors |-> <<>>, path |-> NoPath]
Ok == [kind |-> "Ok", errors |-> <<>>, path |-> NoPath]
FileBackupErrors(es) == [kind |-> "FileBackupErrors", errors |-> es, path |-> NoPath]
Fatal(kind, p) == [kind |-> kind, errors |-> <<>>, path |-> p]

(***************************************************************************)
(* RecursiveReadDir                                                        *)
(***************************************************************************)
\* a variant in which read_dir succeeds on every directory
CanReadEveryDir(f, d) == IsDir(f, d)

\* std::fs::read_dir succeeds on a directory that can be listed
CanReadDir(f, d) == IsDir(f, d) /\ f[d].readable

\* the entries read_dir yields, in directory order
ReadDir(f, d) ==
    SortPaths({p \in DOMAIN f : Len(p) = Len(d) + 1 /\ StartsWith(p, d) /\ Exists(f, p)})

\* a variant that queues the root instead of opening it
TryNewQueuesRoot(f, directory, readdir_type) ==
    [for_root |-> directory,
     readdir_type |-> readdir_type,
     current_readdir |-> <<>>,
     next_readdirs |-> <<directory>>,
     current_dirpath |-> directory]

\* RecursiveReadDir::try_new (called when CanReadDir)
TryNew(f, directory, readdir_type) ==
    [for_root |-> directory,
     readdir_type |-> readdir_type,
     current_readdir |-> ReadDir(f, directory),
     next_readdirs |-> <<>>,
     current_dirpath |-> directory]

NoWalker ==
    [for_root |-> NoPath, readdir_type |-> "FilesOnly", current_readdir |-> <<>>,
     next_readdirs |-> <<>>, current_dirpath |-> NoPath]

ItemOk(p) == [tag |-> "ok", path |-> p, error |-> PPE(NoPath, "", NoPath)]
ItemErr(e) == [tag |-> "err", path |-> NoPath, error |-> e]
ItemNone == [tag |-> "none", path |-> NoPath, error |-> PPE(NoPath, "", NoPath)]

\* a variant that descends into a directory as soon as it meets its entry
RECURSIVE WalkNextDepthFirst(_, _)
WalkNextDepthFirst(f, w) ==
    IF w.current_readdir # <<>>
    THEN LET path == Head(w.current_readdir)
             w1 == [w EXCEPT !.current_readdir = Tail(@)]
         IN IF f[path] = Broken
            THEN [item |-> ItemErr(PPE(NoPath, "CannotGetDirEntry", w.current_dirpath)),
                  w |-> w1]
            ELSE IF IsDir(f, path)
            THEN IF CanReadDir(f, path)
                 THEN LET w2 == [w1 EXCEPT !.current_readdir = ReadDir(f, path) \o @]
                      IN IF w.readdir_type = "FilesOnly"
                         THEN WalkNextDepthFirst(f, w2)
                         ELSE [item |-> ItemOk(path), w |-> w2]
                 ELSE [item |-> ItemErr(PPE(path, "CannotReadDirectoryContent", NoPath)),
                       w |-> w1]
            ELSE IF w.readdir_type = "FilesOnly"
            THEN [item |-> ItemOk(path), w |-> w1]
            ELSE WalkNextDepthFirst(f, w1)
    ELSE [item |-> ItemNone, w |-> w]

\* a variant for which an entry that cannot be read is the end of the walk
RECURSIVE WalkNextEndsAtEntryError(_, _)
WalkNextEndsAtEntryError(f, w) ==
    IF w.current_readdir # <<>>
    THEN LET path == Head(w.current_readdir)
             w1 == [w EXCEPT !.current_readdir = Tail(@)]
         IN IF f[path] = Broken
            THEN [item |-> ItemErr(PPE(NoPath, "CannotGetDirEntry", w.current_dirpath)),
                  w |-> [w EXCEPT !.current_readdir = <<>>, !.next_readdirs = <<>>]]
            ELSE IF IsDir(f, path)
            THEN WalkNextEndsAtEntryError(f, [w1 EXCEPT !.next_readdirs = Append(@, path)])
            ELSE IF w.readdir_type = "FilesOnly"
            THEN [item |-> ItemOk(path), w |-> w1]
            ELSE WalkNextEndsAtEntryError(f, w1)
    ELSE IF w.next_readdirs # <<>>
    THEN LET next_readdir == Head(w.next_readdirs)
             w1 == [w EXCEPT !.next_readdirs = Tail(@)]
         IN IF CanReadDir(f, next_readdir)
            THEN LET w2 == [w1 EXCEPT !.current_readdir = ReadDir(f, next_readdir),
                                      !.current_dirpath = next_readdir]
                 IN IF w.readdir_type = "FilesOnly"
                    THEN WalkNextEndsAtEntryError(f, w2)
                    ELSE [item |-> ItemOk(next_readdir), w |-> w2]
            ELSE [item |-> ItemErr(PPE(next_readdir, "CannotReadDirectoryContent", NoPath)),
                  w |-> w1]
    ELSE [item |-> ItemNone, w |-> w]

\* Iterator::next: the item returned and the walker afterwards
RECURSIVE WalkNext(_, _)
WalkNext(f, w) ==
    IF w.current_readdir # <<>>
    THEN LET path == Head(w.current_readdir)
             w1 == [w EXCEPT !.current_readdir = Tail(@)]
         IN IF f[path] = Broken
            THEN [item |-> ItemErr(PPE(NoPath, "CannotGetDirEntry", w.current_dirpath)),
                  w |-> w1]
            ELSE IF IsDir(f, path)
            THEN WalkNext(f, [w1 EXCEPT !.next_readdirs = Append(@, path)])
            ELSE IF w.readdir_type = "FilesOnly"
            THEN [item |-> ItemOk(path), w |-> w1]
            ELSE WalkNext(f, w1)
    ELSE IF w.next_readdirs # <<>>
    THEN LET next_readdir == Head(w.next_readdirs)
             w1 == [w EXCEPT !.next_readdirs = Tail(@)]
         IN IF CanReadDir(f, next_readdir)
            THEN LET w2 == [w1 EXCEPT !.current_readdir = ReadDir(f, next_readdir),
                                      !.current_dirpath = next_readdir]
                 IN IF w.readdir_type = "FilesOnly"
                    THEN WalkNext(f, w2)
                    ELSE [item |-> ItemOk(next_readdir), w |-> w2]
            ELSE [item |-> ItemErr(PPE(next_readdir, "CannotReadDirectoryContent", NoPath)),
                  w |-> w1]
    ELSE [item |-> ItemNone, w |-> w]

\* futures::stream::iter(walker).count()
RECURSIVE Count(_, _)
Count(f, w) ==
    LET n == WalkNext(f, w)
    IN IF n.item.tag = "none" THEN 0 ELSE 1 + Count(f, n.w)

(***************************************************************************)
(* Helpers on sequences.                                                   *)
(***************************************************************************)
Range(seq) == {seq[i] : i \in 1..Len(seq)}

\* a variant that names no directory as not processed
SelectNothing(es) == <<>>

\* errors.iter().filter_map(|e| e.not_processed.as_ref()).collect()
RECURSIVE SelectNotProcessed(_)
SelectNotProcessed(es) ==
    IF es = <<>> THEN <<>>
    ELSE IF Head(es).not_processed # NoPath
    THEN <<Head(es).not_processed>> \o SelectNotProcessed(Tail(es))
    ELSE SelectNotProcessed(Tail(es))

(***************************************************************************)
(* Commands.                                                               *)
(***************************************************************************)
Command(kind, delete_files) ==
    [kind |-> kind, source_root |-> SRoot, destination_root |-> DRoot,
     delete_files |-> delete_files]

Commands ==
    {Command("Backup", FALSE), Command("Sync", FALSE),
     Command("Restore", FALSE), Command("Restore", TRUE)}

NoCommand == Command("none", FALSE)

\* the arguments run() hands to backup() and to purge: Restore switches them
FromRoot(c) == IF c.kind = "Restore" THEN c.destination_root ELSE c.source_root
ToRoot(c) == IF c.kind = "Restore" THEN c.source_root ELSE c.destination_root

\* the time a write of the current run stamps on a file
Now == MaxTime + 1 + Len(runs)

\* what one operation did: the file system after it, the messages it sent, the
\* errors it returned, and whether its debug assertions held
Outcome(f, ms, es, a) == [fs |-> f, msgs |-> ms, errors |-> es, assertOk |-> a]

\* a variant that gives every file the same place in the destination
GetDestinationOfAll(destination_root, source_root, source_path) ==
    IF CanStrip(source_path, source_root)
    THEN [ok |-> TRUE,
          path |-> Join(destination_root, <<"a">>),
          error |-> PPE(NoPath, "", NoPath)]
    ELSE [ok |-> FALSE, path |-> NoPath,
          error |-> PPE(source_path, "InvariantBroken", source_root)]

(***************************************************************************)
(* get_destination_file_path                                               *)
(***************************************************************************)
GetDestinationFilePath(destination_root, source_root, source_path) ==
    IF CanStrip(source_path, source_root)
    THEN [ok |-> TRUE,
          path |-> Join(destination_root, StripPrefix(source_path, source_root)),
          error |-> PPE(NoPath, "", NoPath)]
    ELSE [ok |-> FALSE, path |-> NoPath,
          error |-> PPE(source_path, "InvariantBroken", source_root)]

(***************************************************************************)
(* validate_or_create_root_paths                                           *)
(* createOk: the outcome of std::fs::create_dir_all                        *)
(***************************************************************************)
\* a variant that creates the destination root before it looks at the source root
ValidateOrCreateDestinationFirst(f, source_directory_root, destination_directory_root, createOk) ==
    LET g == IF ~Exists(f, destination_directory_root) /\ createOk
             THEN [f EXCEPT ![destination_directory_root] = Dir(TRUE)]
             ELSE f
    IN IF ~Exists(f, source_directory_root)
       THEN [fs |-> g, msgs |-> <<>>,
             result |-> Fatal("SourceRootPathDoesNotExist", source_directory_root)]
       ELSE IF ~Exists(g, destination_directory_root)
       THEN [fs |-> g, msgs |-> <<>>,
             result |-> Fatal("CannotCreateRootDestinationDir", destination_directory_root)]
       ELSE IF ~IsDir(g, destination_directory_root)
       THEN [fs |-> g, msgs |-> <<>>,
             result |-> Fatal("RootDestinatinIsNotADirectory", destination_directory_root)]
       ELSE [fs |-> g, msgs |-> <<>>, result |-> Ok]

ValidateOrCreateRootPaths(f, source_directory_root, destination_directory_root, createOk) ==
    IF ~Exists(f, source_directory_root)
    THEN [fs |-> f, msgs |-> <<>>,
          result |-> Fatal("SourceRootPathDoesNotExist", source_directory_root)]
    ELSE IF ~Exists(f, destination_directory_root)
    THEN IF createOk
         THEN [fs |-> [f EXCEPT ![destination_directory_root] = Dir(TRUE)],
               msgs |-> <<Info("CreatingDestinationDir", NoPath, destination_directory_root),
                          Info("DestinationDirCreated", NoPath, destination_directory_root)>>,
               result |-> Ok]
         ELSE [fs |-> f,
               msgs |-> <<Info("CreatingDestinationDir", NoPath, destination_directory_root)>>,
               result |-> Fatal("CannotCreateRootDestinationDir", destination_directory_root)]
    ELSE IF ~IsDir(f, destination_directory_root)
    THEN [fs |-> f, msgs |-> <<>>,
          result |-> Fatal("RootDestinatinIsNotADirectory", destination_directory_root)]
    ELSE [fs |-> f, msgs |-> <<>>, result |-> Ok]

(***************************************************************************)
(* create_single_directory_if_not_exists                                   *)
(* createOk: the outcome the environment gives tokio::fs::create_dir       *)
(***************************************************************************)
\* tokio::fs::create_dir is not recursive: the parent must be a directory
CreateDirSucceeds(f, dir, createOk) ==
    createOk /\ ~Exists(f, dir) /\ IsDir(f, Parent(dir))

CreateSingleDirectoryIfNotExists(f, source_directory_root, destination_directory_root, source_directory, createOk) ==
    LET dest == GetDestinationFilePath(destination_directory_root,
                                       source_directory_root, source_directory)
        new_destination_dir == dest.path
        a == IsDir(f, source_directory)
    IN IF ~dest.ok THEN Outcome(f, <<>>, <<dest.error>>, a)
       ELSE IF Exists(f, new_destination_dir)
       THEN IF IsDir(f, new_destination_dir)
            THEN Outcome(f, <<Increment("DestinationDirAlreadyExists",
                                        source_directory, new_destination_dir)>>, <<>>, a)
            ELSE Outcome(f, <<>>,
                         <<PPE(source_directory, "DestinationForSourceDirExistsAsFile",
                               new_destination_dir)>>, a)
       ELSE IF CreateDirSucceeds(f, new_destination_dir, createOk)
            THEN Outcome([f EXCEPT ![new_destination_dir] = Dir(TRUE)],
                         <<Info("StartCreatingDir", source_directory, new_destination_dir),
                           Increment("DirCreated", source_directory, new_destination_dir)>>,
                         <<>>, a)
            ELSE Outcome(f,
                         <<Info("StartCreatingDir", source_directory, new_destination_dir)>>,
                         <<PPE(source_directory, "CannotCreateDestinationDir",
                               new_destination_dir)>>, a)

\* a variant of the test that finds no directory under a failed one
UnderFailedNever(es, source_directory) == FALSE

\* the test of the loop of create_all_directories_in_destination: the directory
\* lies under one that an error names as not processed
UnderFailed(es, source_directory) ==
    \E i \in 1..Len(es) :
        /\ es[i].not_processed # NoPath
        /\ StartsWith(source_directory, es[i].not_processed)

(***************************************************************************)
(* FileMetaData, get_hash, skip_copy, set_modified_time,                   *)
(* copy_or_skip_if_same, backup_single_file                                *)
(*                                                                         *)
(* env is what the environment answers to the fallible calls made for one  *)
(* file: env.meta (the source's metadata can be read), env.dmeta (the      *)
(* destination's metadata can be read), env.hash (both hashes can be       *)
(* computed), env.copy (tokio::fs::copy), env.mtime (File::set_modified).  *)
(***************************************************************************)
Envs == [meta : BOOLEAN, dmeta : BOOLEAN, hash : BOOLEAN, copy : BOOLEAN, mtime : BOOLEAN]

\* how many of the calls env makes fail
Failures(env) ==
    (IF env.meta THEN 0 ELSE 1) + (IF env.dmeta THEN 0 ELSE 1)
        + (IF env.hash THEN 0 ELSE 1)
        + (IF env.copy THEN 0 ELSE 1) + (IF env.mtime THEN 0 ELSE 1)

\* env2 makes fewer calls fail than env
Milder(env2, env) ==
    /\ env2 # env
    /\ env.meta => env2.meta
    /\ env.dmeta => env2.dmeta
    /\ env.hash => env2.hash
    /\ env.copy => env2.copy
    /\ env.mtime => env2.mtime

None == [some |-> FALSE, modified |-> 0, length |-> 0, file_type |-> ""]

\* FileMetaData::try_new on a path whose metadata can be read
FileMetaData(f, path) ==
    IF Exists(f, path)
    THEN [some |-> TRUE, modified |-> f[path].modified,
          length |-> Length(f[path].content), file_type |-> f[path].kind]
    ELSE None

\* a variant whose digest tells apart only contents of different lengths
GetHashOfLength(f, path, readOk) ==
    IF readOk /\ IsFile(f, path)
    THEN [some |-> TRUE, hash |-> <<"blake3", Length(f[path].content)>>]
    ELSE [some |-> FALSE, hash |-> <<>>]

\* get_hash: the digest of the content; None when the file cannot be read
GetHash(f, path, readOk) ==
    IF readOk /\ IsFile(f, path)
    THEN [some |-> TRUE, hash |-> <<"blake3", f[path].content>>]
    ELSE [some |-> FALSE, hash |-> <<>>]

\* a variant that skips the copy when one of the metadata cannot be read
SkipCopyWithoutMetadata(f, source_file, destination_file, source_metadata, metaOk, hashOk) ==
    IF ~Exists(f, destination_file)
    THEN [skip |-> FALSE, msgs |-> <<>>]
    ELSE LET destination_metadata ==
                 IF metaOk THEN FileMetaData(f, destination_file) ELSE None
         IN IF (~destination_metadata.some /\ source_metadata.some)
               \/ (destination_metadata.some /\ ~source_metadata.some)
            THEN [skip |-> TRUE,
                  msgs |-> <<Warning("CannotGetMetadata", source_file, destination_file)>>]
            ELSE IF source_metadata # destination_metadata
            THEN [skip |-> FALSE, msgs |-> <<>>]
            ELSE LET src_hash == GetHash(f, source_file, hashOk)
                     dest_hash == GetHash(f, destination_file, hashOk)
                 IN IF src_hash.some /\ dest_hash.some
                    THEN IF src_hash # dest_hash
                         THEN [skip |-> FALSE, msgs |-> <<>>]
                         ELSE [skip |-> TRUE, msgs |-> <<>>]
                    ELSE [skip |-> TRUE,
                          msgs |-> <<Warning("CannotGetHash", source_file, destination_file)>>]

\* skip_copy: TRUE when the copy is to be skipped, and the warnings sent
SkipCopy(f, source_file, destination_file, source_metadata, metaOk, hashOk) ==
    IF ~Exists(f, destination_file)
    THEN [skip |-> FALSE, msgs |-> <<>>]
    ELSE LET destination_metadata ==
                 IF metaOk THEN FileMetaData(f, destination_file) ELSE None
         IN IF (~destination_metadata.some /\ source_metadata.some)
               \/ (destination_metadata.some /\ ~source_metadata.some)
            THEN [skip |-> FALSE,
                  msgs |-> <<Warning("CannotGetMetadata", source_file, destination_file)>>]
            ELSE IF source_metadata # destination_metadata
            THEN [skip |-> FALSE, msgs |-> <<>>]
            ELSE LET src_hash == GetHash(f, source_file, hashOk)
                     dest_hash == GetHash(f, destination_file, hashOk)
                 IN IF src_hash.some /\ dest_hash.some
                    THEN IF src_hash # dest_hash
                         THEN [skip |-> FALSE, msgs |-> <<>>]
                         ELSE [skip |-> TRUE, msgs |-> <<>>]
                    ELSE [skip |-> TRUE,
                          msgs |-> <<Warning("CannotGetHash", source_file, destination_file)>>]

\* tokio::fs::copy(source, destination) succeeds
CopySucceeds(f, source_file, destination_file, copyOk) ==
    /\ copyOk
    /\ IsFile(f, source_file)
    /\ ~IsDir(f, destination_file)
    /\ IsDir(f, Parent(destination_file))

\* a variant that moves the file: the source is gone afterwards
CopyFileAndRemoveSource(f, source_file, destination_file, now) ==
    [f EXCEPT ![destination_file] = File(f[source_file].content, now),
              ![source_file] = Absent]

\* the destination after tokio::fs::copy: the source's content, written now
CopyFile(f, source_file, destination_file, now) ==
    [f EXCEPT ![destination_file] = File(f[source_file].content, now)]

\* a variant that leaves the destination with the time of the copy
SetModifiedTimeNever(f, source_metadata, destination_file, mtimeOk) ==
    [fs |-> f, some |-> TRUE]

\* set_modified_time: the file system afterwards and whether it returned Some(())
SetModifiedTime(f, source_metadata, destination_file, mtimeOk) ==
    IF source_metadata.some
    THEN IF mtimeOk
         THEN [fs |-> [f EXCEPT ![destination_file].modified = source_metadata.modified],
               some |-> TRUE]
         ELSE [fs |-> f, some |-> FALSE]
    ELSE [fs |-> f, some |-> TRUE]

\* a variant that copies the file also when it reports it as skipped
CopyOrSkipAndCopy(f, source_file, destination_file, now, env) ==
    LET a == ~IsDir(f, source_file) /\ ~IsDir(f, destination_file)
        source_metadata == IF env.meta THEN FileMetaData(f, source_file) ELSE None
        sk == SkipCopy(f, source_file, destination_file, source_metadata, env.dmeta,
                       env.hash)
    IN Outcome(CopyFile(f, source_file, destination_file, now),
               sk.msgs \o (IF sk.skip
                           THEN <<Increment("SkippingFileNoModification",
                                            source_file, destination_file)>>
                           ELSE <<>>)
                       \o <<Info("StartCopingFile", source_file, destination_file),
                            Increment("FileCopied", source_file, destination_file)>>,
               <<>>, a)

CopyOrSkipIfSame(f, source_file, destination_file, now, env) ==
    LET a == ~IsDir(f, source_file) /\ ~IsDir(f, destination_file)
        source_metadata == IF env.meta THEN FileMetaData(f, source_file) ELSE None
        sk == SkipCopy(f, source_file, destination_file, source_metadata, env.dmeta,
                       env.hash)
    IN IF sk.skip
       THEN Outcome(f, sk.msgs \o <<Increment("SkippingFileNoModification",
                                              source_file, destination_file)>>, <<>>, a)
       ELSE IF CopySucceeds(f, source_file, destination_file, env.copy)
       THEN LET sm == SetModifiedTime(CopyFile(f, source_file, destination_file, now),
                                     source_metadata, destination_file, env.mtime)
            IN Outcome(sm.fs,
                       sk.msgs \o <<Info("StartCopingFile", source_file, destination_file),
                                    Increment("FileCopied", source_file, destination_file)>>
                               \o (IF sm.some THEN <<>>
                                   ELSE <<Warning("CannotCopyModifiedTime",
                                                  source_file, destination_file)>>),
                       <<>>, a)
       ELSE Outcome(f,
                    sk.msgs \o <<Info("StartCopingFile", source_file, destination_file)>>,
                    <<PPE(source_file, "CannotCopyFile", destination_file)>>, a)

BackupSingleFile(f, source_directory_root, destination_directory_root, source_file, now, env) ==
    LET dest == GetDestinationFilePath(destination_directory_root,
                                       source_directory_root, source_file)
    IN IF ~dest.ok THEN Outcome(f, <<>>, <<dest.error>>, ~IsDir(f, source_file))
       ELSE LET o == CopyOrSkipIfSame(f, source_file, dest.path, now, env)
            IN [o EXCEPT !.assertOk = @ /\ ~IsDir(f, source_file)]

\* a variant that tries every file, also below a directory that was not mirrored
UnderNotExistingNever(not_existing_destination_directories, source_file) == FALSE

\* the test of backup_all_files: the file lies in a directory that was not mirrored
UnderNotExisting(not_existing_destination_directories, source_file) ==
    \E i \in 1..Len(not_existing_destination_directories) :
        StartsWith(source_file, not_existing_destination_directories[i])

(***************************************************************************)
(* get_paths_in_destinatination_but_not_in_source                          *)
(***************************************************************************)
\* stream.and_then(strip_prefix).try_collect(): the relative paths the walker
\* yields, or the first error.  TryCollectItem handles the item n that next() gave.
RECURSIVE TryCollect(_, _, _)
RECURSIVE TryCollectItem(_, _, _, _)
\* a variant that passes over the errors of the walker and collects the rest
TryCollectItemPastErrors(f, root, acc, n) ==
    IF n.item.tag = "none" THEN [ok |-> TRUE, set |-> acc, error |-> PPE(NoPath, "", NoPath)]
    ELSE IF n.item.tag = "err" THEN TryCollect(f, n.w, acc)
    ELSE IF ~CanStrip(n.item.path, root)
    THEN [ok |-> FALSE, set |-> {}, error |-> PPE(n.item.path, "InvariantBroken", root)]
    ELSE TryCollect(f, n.w, acc \cup {StripPrefix(n.item.path, root)})

TryCollectItem(f, root, acc, n) ==
    IF n.item.tag = "none" THEN [ok |-> TRUE, set |-> acc, error |-> PPE(NoPath, "", NoPath)]
    ELSE IF n.item.tag = "err" THEN [ok |-> FALSE, set |-> {}, error |-> n.item.error]
    ELSE IF ~CanStrip(n.item.path, root)
    THEN [ok |-> FALSE, set |-> {}, error |-> PPE(n.item.path, "InvariantBroken", root)]
    ELSE TryCollect(f, n.w, acc \cup {StripPrefix(n.item.path, root)})

TryCollect(f, w, acc) == TryCollectItem(f, w.for_root, acc, WalkNext(f, w))

\* a variant that takes the difference the other way round
SortedDifferenceOfSource(destination_root_path, source_files, destination_files) ==
    IF ~source_files.ok
    THEN [ok |-> FALSE, paths |-> <<>>, error |-> source_files.error]
    ELSE IF ~destination_files.ok
    THEN [ok |-> FALSE, paths |-> <<>>, error |-> destination_files.error]
    ELSE [ok |-> TRUE,
          paths |-> SortPaths({Join(destination_root_path, p) :
                                  p \in source_files.set \ destination_files.set}),
          error |-> PPE(NoPath, "", NoPath)]

\* a variant that takes away nothing: every path found in the destination
SortedDestination(destination_root_path, source_files, destination_files) ==
    IF ~source_files.ok
    THEN [ok |-> FALSE, paths |-> <<>>, error |-> source_files.error]
    ELSE IF ~destination_files.ok
    THEN [ok |-> FALSE, paths |-> <<>>, error |-> destination_files.error]
    ELSE [ok |-> TRUE,
          paths |-> SortPaths({Join(destination_root_path, p) :
                                  p \in destination_files.set}),
          error |-> PPE(NoPath, "", NoPath)]

\* (&destination_files - &source_files), joined to the destination root and sorted
SortedDifference(destination_root_path, source_files, destination_files) ==
    IF ~source_files.ok
    THEN [ok |-> FALSE, paths |-> <<>>, error |-> source_files.error]
    ELSE IF ~destination_files.ok
    THEN [ok |-> FALSE, paths |-> <<>>, error |-> destination_files.error]
    ELSE [ok |-> TRUE,
          paths |-> SortPaths({Join(destination_root_path, p) :
                                  p \in destination_files.set \ source_files.set}),
          error |-> PPE(NoPath, "", NoPath)]

\* a variant that does not join the destination root to what it found
GetPathsWithoutRoot(f, recurse_source, recurse_destination) ==
    SortedDifference(<<>>,
                     TryCollect(f, recurse_source, {}),
                     TryCollect(f, recurse_destination, {}))

GetPathsInDestinationButNotInSource(f, recurse_source, recurse_destination) ==
    SortedDifference(recurse_destination.for_root,
                     TryCollect(f, recurse_source, {}),
                     TryCollect(f, recurse_destination, {}))

\* a variant that reports success and leaves the tree as it was
RemoveNothing(f, dir) == f

\* tokio::fs::remove_dir_all: the directory and everything below it is gone
RemoveDirAll(f, dir) ==
    [p \in DOMAIN f |-> IF StartsWith(p, dir) THEN Absent ELSE f[p]]

\* tokio::fs::remove_file
RemoveFile(f, file) == [f EXCEPT ![file] = Absent]

(***************************************************************************)
(* The session: which command a caller runs next.  A session is one        *)
(* command, or Backup twice, or Restore with delete_files and then Sync;   *)
(* the caller goes on to the second command when the first was not aborted *)
(* by a fatal error.                                                       *)
(***************************************************************************)
NextCommands ==
    IF pc = "idle" THEN Commands
    ELSE IF pc = "done" /\ runs = <<>> /\ result.kind \in {"Ok", "FileBackupErrors"}
    THEN IF cmd.kind = "Backup" THEN {Command("Backup", FALSE)}
         ELSE IF cmd.kind = "Restore" /\ cmd.delete_files THEN {Command("Sync", FALSE)}
         ELSE {}
    ELSE {}

FinishedRun == [cmd |-> cmd, result |-> result, msgs |-> msgs, fsStart |-> fsStart,
                produced |-> produced, assertOk |-> assertOk]

Init ==
    /\ fs \in FileSystems
    /\ pc = "idle"
    /\ cmd = NoCommand
    /\ rd = NoWalker
    /\ errors = <<>>
    /\ fileErrors = <<>>
    /\ unreach = <<>>
    /\ todo = <<>>
    /\ deleted = <<>>
    /\ msgs = <<>>
    /\ result = NoResult
    /\ produced = <<>>
    /\ runs = <<>>
    /\ fsStart = fs
    /\ assertOk = TRUE
    /\ faults = 0
    /\ yielded = <<>>
    /\ inflight = <<>>
    /\ cpus = 1

\* run(): the command is taken and the roots are validated
RunValidate(c, createOk) ==
    /\ c \in NextCommands
    /\ createOk \/ (faults < MaxFaults /\ ~Exists(fs, c.destination_root)
                      /\ Exists(fs, c.source_root))
    /\ faults' = IF createOk THEN faults ELSE faults + 1
    /\ \E v \in {ValidateOrCreateRootPaths(fs, c.source_root, c.destination_root,
                                           createOk)} :
          /\ fs' = v.fs
          /\ msgs' = v.msgs
          /\ result' = IF v.result = Ok THEN NoResult ELSE v.result
          /\ pc' = IF v.result = Ok THEN "mirror" ELSE "done"
    /\ cmd' = c
    /\ runs' = IF pc = "done" THEN Append(runs, FinishedRun) ELSE runs
    /\ fsStart' = fs
    /\ rd' = NoWalker
    /\ errors' = <<>>
    /\ fileErrors' = <<>>
    /\ unreach' = <<>>
    /\ todo' = <<>>
    /\ deleted' = <<>>
    /\ produced' = <<>>
    /\ assertOk' = TRUE
    /\ UNCHANGED <<yielded, inflight, cpus>>

\* create_all_directories_in_destination up to its loop.  The walker is made
\* twice, to count and to work, and Start(n, CreatingDirectories) is sent in
\* between; opened is the number of try_new calls that succeed
CreateDirsBegin(opened) ==
    /\ pc = "mirror"
    /\ opened = 2 \/ (faults < MaxFaults /\ CanReadDir(fs, FromRoot(cmd)))
    /\ assertOk' = (assertOk /\ IsDir(fs, FromRoot(cmd)) /\ IsDir(fs, ToRoot(cmd)))
    /\ IF ~CanReadDir(fs, FromRoot(cmd)) \/ opened = 0
       THEN /\ result' = Fatal("CannotReadDirectoryContent", FromRoot(cmd))
            /\ pc' = "done"
            /\ UNCHANGED <<msgs, rd, errors>>
       ELSE /\ msgs' = Append(msgs,
                   ProgressStart(Count(fs, TryNew(fs, FromRoot(cmd), "DirectoriesOnly")),
                                 "CreatingDirectories"))
            /\ IF opened = 2
               THEN /\ rd' = TryNew(fs, FromRoot(cmd), "DirectoriesOnly")
                    /\ errors' = <<>>
                    /\ pc' = "mirrorLoop"
                    /\ UNCHANGED result
               ELSE /\ result' = Fatal("CannotReadDirectoryContent", FromRoot(cmd))
                    /\ pc' = "done"
                    /\ UNCHANGED <<rd, errors>>
    /\ faults' = IF opened = 2 THEN faults ELSE faults + 1
    /\ UNCHANGED <<yielded, inflight, cpus, fs, cmd, fileErrors, unreach, todo, deleted, produced, runs, fsStart>>

\* one iteration of the loop of create_all_directories_in_destination
CreateDirsIteration(f, es, item, source_directory_root, destination_directory_root, createOk) ==
    IF item.tag = "err" THEN Outcome(f, <<>>, <<item.error>>, TRUE)
    ELSE IF UnderFailed(es, item.path) THEN Outcome(f, <<>>, <<>>, TRUE)
    ELSE CreateSingleDirectoryIfNotExists(f, source_directory_root,
                                          destination_directory_root, item.path, createOk)

CreateDirsStep(createOk) ==
    /\ pc = "mirrorLoop"
    /\ \E n \in {WalkNext(fs, rd)} :
          /\ n.item.tag # "none"
          /\ \E o \in {CreateDirsIteration(fs, errors, n.item, FromRoot(cmd), ToRoot(cmd),
                                           createOk)} :
                /\ createOk \/
                      (/\ faults < MaxFaults
                       /\ o # CreateDirsIteration(fs, errors, n.item, FromRoot(cmd),
                                                  ToRoot(cmd), TRUE))
                /\ fs' = o.fs
                /\ msgs' = msgs \o o.msgs
                /\ errors' = errors \o o.errors
                /\ produced' = produced \o o.errors
                /\ assertOk' = (assertOk /\ o.assertOk)
          /\ rd' = n.w
    /\ faults' = IF createOk THEN faults ELSE faults + 1
    /\ UNCHANGED <<yielded, inflight, cpus, pc, cmd, fileErrors, unreach, todo, deleted, result, runs, fsStart>>

CreateDirsEnd ==
    /\ pc = "mirrorLoop"
    /\ WalkNext(fs, rd).item.tag = "none"
    /\ msgs' = Append(msgs, ProgressEnd("CreatingDirectories"))
    /\ pc' = "copy"
    /\ UNCHANGED <<yielded, inflight, cpus, fs, cmd, rd, errors, fileErrors, unreach, todo, deleted, result,
                   produced, runs, fsStart, assertOk, faults>>

\* a variant of backup() that does not wait for the directories to be mirrored
CopyBeginEarly(opened) ==
    /\ pc = "mirrorLoop"
    /\ opened = 2
    /\ unreach' = SelectNotProcessed(errors)
    /\ assertOk' = (assertOk /\ IsDir(fs, FromRoot(cmd)) /\ IsDir(fs, ToRoot(cmd)))
    /\ msgs' = Append(msgs,
                ProgressStart(Count(fs, TryNew(fs, FromRoot(cmd), "FilesOnly")),
                              "CopingFiles"))
    /\ rd' = TryNew(fs, FromRoot(cmd), "FilesOnly")
    /\ fileErrors' = <<>>
    /\ pc' = "copyLoop"
    /\ UNCHANGED <<result, yielded, inflight, cpus, fs, cmd, errors, todo, deleted, produced, runs, fsStart, faults>>

\* backup(): the unreachable directories; backup_all_files up to its stream.
\* The walker is made twice and Start(n, CopingFiles) is sent in between;
\* opened is the number of try_new calls that succeed
CopyBegin(opened) ==
    /\ pc = "copy"
    /\ opened = 2 \/ (faults < MaxFaults /\ CanReadDir(fs, FromRoot(cmd)))
    /\ unreach' = SelectNotProcessed(errors)
    /\ assertOk' = (assertOk /\ IsDir(fs, FromRoot(cmd)) /\ IsDir(fs, ToRoot(cmd)))
    /\ IF ~CanReadDir(fs, FromRoot(cmd)) \/ opened = 0
       THEN /\ result' = Fatal("CannotReadDirectoryContent", FromRoot(cmd))
            /\ pc' = "done"
            /\ UNCHANGED <<msgs, rd, fileErrors>>
       ELSE /\ msgs' = Append(msgs,
                   ProgressStart(Count(fs, TryNew(fs, FromRoot(cmd), "FilesOnly")),
                                 "CopingFiles"))
            /\ IF opened = 2
               THEN /\ rd' = TryNew(fs, FromRoot(cmd), "FilesOnly")
                    /\ fileErrors' = <<>>
                    /\ pc' = "copyLoop"
                    /\ UNCHANGED result
               ELSE /\ result' = Fatal("CannotReadDirectoryContent", FromRoot(cmd))
                    /\ pc' = "done"
                    /\ UNCHANGED <<rd, fileErrors>>
    /\ faults' = IF opened = 2 THEN faults ELSE faults + 1
    /\ UNCHANGED <<yielded, inflight, cpus, fs, cmd, errors, todo, deleted, produced, runs, fsStart>>

\* what the stream of backup_all_files does for one item of the walker
CopyIteration(f, not_existing, item, source_directory_root, destination_directory_root, now, env) ==
    IF item.tag = "err" THEN Outcome(f, <<>>, <<item.error>>, TRUE)
    ELSE IF UnderNotExisting(not_existing, item.path) THEN Outcome(f, <<>>, <<>>, TRUE)
    ELSE BackupSingleFile(f, source_directory_root, destination_directory_root,
                          item.path, now, env)

CopyStep(env) ==
    /\ pc = "copyLoop"
    /\ \E n \in {WalkNext(fs, rd)} :
          /\ n.item.tag # "none"
          /\ \E o \in {CopyIteration(fs, unreach, n.item, FromRoot(cmd), ToRoot(cmd), Now,
                                     env)} :
                /\ faults + Failures(env) <= MaxFaults
                /\ \A env2 \in Envs :
                      Milder(env2, env) =>
                          o # CopyIteration(fs, unreach, n.item, FromRoot(cmd), ToRoot(cmd),
                                            Now, env2)
                /\ fs' = o.fs
                /\ msgs' = msgs \o o.msgs
                /\ fileErrors' = fileErrors \o o.errors
                /\ produced' = produced \o o.errors
                /\ assertOk' = (assertOk /\ o.assertOk)
          /\ rd' = n.w
    /\ faults' = faults + Failures(env)
    /\ UNCHANGED <<yielded, inflight, cpus, pc, cmd, errors, unreach, todo, deleted, result, runs, fsStart>>

\* what backup() returns
BackupResult(es) == IF es = <<>> THEN Ok ELSE FileBackupErrors(es)

\* a variant that purges after every command
AfterBackupAlwaysPurges(c, r) ==
    IF r # Ok THEN [pc |-> "done", result |-> r]
    ELSE [pc |-> "purge", result |-> NoResult]

\* a variant in which Restore purges whatever delete_files says
AfterBackupRestorePurges(c, r) ==
    IF r # Ok THEN [pc |-> "done", result |-> r]
    ELSE IF c.kind = "Sync" \/ c.kind = "Restore"
    THEN [pc |-> "purge", result |-> NoResult]
    ELSE [pc |-> "done", result |-> Ok]

\* run() after backup() has returned r: where it goes on and what it returns
AfterBackup(c, r) ==
    IF r # Ok THEN [pc |-> "done", result |-> r]
    ELSE IF c.kind = "Sync" \/ (c.kind = "Restore" /\ c.delete_files)
    THEN [pc |-> "purge", result |-> NoResult]
    ELSE [pc |-> "done", result |-> Ok]

\* the end of backup_all_files and of backup()
CopyEnd ==
    /\ pc = "copyLoop"
    /\ WalkNext(fs, rd).item.tag = "none"
    /\ inflight = <<>>
    /\ msgs' = Append(msgs, ProgressEnd("CopingFiles"))
    /\ errors' = errors \o fileErrors
    /\ \E n \in {AfterBackup(cmd, BackupResult(errors \o fileErrors))} :
          /\ pc' = n.pc
          /\ result' = n.result
    /\ UNCHANGED <<yielded, inflight, cpus, fs, cmd, rd, fileErrors, unreach, todo, deleted, produced, runs,
                   fsStart, assertOk, faults>>

(***************************************************************************)
(* purge_files_and_dirs_in_destination(source_root, destination_root)      *)
(***************************************************************************)
\* a variant that returns the error of the diff as it is, outside any list
DiffOrReturnBare(d) ==
    IF d.ok
    THEN [ok |-> TRUE, paths |-> d.paths, thrown |-> <<>>, result |-> NoResult]
    ELSE [ok |-> FALSE, paths |-> <<>>, thrown |-> <<d.error>>,
          result |-> Fatal(d.error.kind, d.error.not_processed)]

\* what the purge does with the diff d: the paths to delete, or what it returns
\* at once (d.error is pushed to no vector, it is the whole result)
DiffOrReturn(d) ==
    IF d.ok
    THEN [ok |-> TRUE, paths |-> d.paths, thrown |-> <<>>, result |-> NoResult]
    ELSE [ok |-> FALSE, paths |-> <<>>, thrown |-> <<d.error>>,
          result |-> FileBackupErrors(<<d.error>>)]

\* the walkers and the diff at the start of each half of the purge
PurgeDiff(f, source_root, destination_root, readdir_type) ==
    IF ~CanReadDir(f, source_root)
    THEN [ok |-> FALSE, paths |-> <<>>, thrown |-> <<>>,
          result |-> Fatal("CannotReadDirectoryContent", source_root)]
    ELSE IF ~CanReadDir(f, destination_root)
    THEN [ok |-> FALSE, paths |-> <<>>, thrown |-> <<>>,
          result |-> Fatal("CannotReadDirectoryContent", destination_root)]
    ELSE DiffOrReturn(GetPathsInDestinationButNotInSource(f,
                          TryNew(f, source_root, readdir_type),
                          TryNew(f, destination_root, readdir_type)))

PurgeDirsBegin ==
    /\ pc = "purge"
    /\ \E d \in {PurgeDiff(fs, FromRoot(cmd), ToRoot(cmd), "DirectoriesOnly")} :
          /\ produced' = produced \o d.thrown
          /\ result' = d.result
          /\ todo' = d.paths
          /\ pc' = IF d.ok THEN "purgeDirs" ELSE "done"
          /\ msgs' = IF d.ok
                     THEN Append(msgs, ProgressStart(Len(d.paths), "DeletingDirs"))
                     ELSE msgs
    /\ errors' = <<>>
    /\ deleted' = <<>>
    /\ UNCHANGED <<yielded, inflight, cpus, fs, cmd, rd, fileErrors, unreach, runs, fsStart, assertOk, faults>>

\* a variant that passes in silence over a directory inside a deleted one
DeleteDirIterationQuiet(f, deleted_dirs, dir, removeOk) ==
    IF \E i \in 1..Len(deleted_dirs) : StartsWith(dir, deleted_dirs[i])
    THEN [fs |-> f, msgs |-> <<>>, errors |-> <<>>, deleted |-> <<>>]
    ELSE IF removeOk /\ IsDir(f, dir)
    THEN [fs |-> RemoveDirAll(f, dir),
          msgs |-> <<Info("StartDeletingDir", NoPath, dir),
                     Increment("DeletedDir", NoPath, dir)>>,
          errors |-> <<>>, deleted |-> <<dir>>]
    ELSE [fs |-> f, msgs |-> <<Info("StartDeletingDir", NoPath, dir)>>,
          errors |-> <<PPE(dir, "CannotDeleteDirectory", NoPath)>>, deleted |-> <<>>]

\* one iteration of the loop that deletes directories; removeOk is the outcome of
\* tokio::fs::remove_dir_all
DeleteDirIteration(f, deleted_dirs, dir, removeOk) ==
    IF \E i \in 1..Len(deleted_dirs) : StartsWith(dir, deleted_dirs[i])
    THEN [fs |-> f, msgs |-> <<Increment("DirectoryAlreadyDeleted", NoPath, dir)>>,
          errors |-> <<>>, deleted |-> <<>>]
    ELSE IF removeOk /\ IsDir(f, dir)
    THEN [fs |-> RemoveDirAll(f, dir),
          msgs |-> <<Info("StartDeletingDir", NoPath, dir),
                     Increment("DeletedDir", NoPath, dir)>>,
          errors |-> <<>>, deleted |-> <<dir>>]
    ELSE [fs |-> f, msgs |-> <<Info("StartDeletingDir", NoPath, dir)>>,
          errors |-> <<PPE(dir, "CannotDeleteDirectory", NoPath)>>, deleted |-> <<>>]

PurgeDirsStep(removeOk) ==
    /\ pc = "purgeDirs"
    /\ todo # <<>>
    /\ \E o \in {DeleteDirIteration(fs, deleted, Head(todo), removeOk)} :
          /\ removeOk \/
             (faults < MaxFaults /\ o # DeleteDirIteration(fs, deleted, Head(todo), TRUE))
          /\ fs' = o.fs
          /\ msgs' = msgs \o o.msgs
          /\ errors' = errors \o o.errors
          /\ produced' = produced \o o.errors
          /\ deleted' = deleted \o o.deleted
    /\ todo' = Tail(todo)
    /\ faults' = IF removeOk THEN faults ELSE faults + 1
    /\ UNCHANGED <<yielded, inflight, cpus, pc, cmd, rd, fileErrors, unreach, result, runs, fsStart, assertOk>>

\* the trees as the second pair of walkers finds them: read_dir is a call to the
\* environment like the others, and here it may fail for one directory that the
\* first pair of walkers could still list (NoPath: for none)
Listing(f, unlistable) ==
    [p \in DOMAIN f |->
        IF p = unlistable THEN [f[p] EXCEPT !.readable = FALSE] ELSE f[p]]

PurgeFilesBegin(unlistable) ==
    /\ pc = "purgeDirs"
    /\ todo = <<>>
    /\ unlistable # NoPath =>
          /\ faults < MaxFaults
          /\ CanReadDir(fs, unlistable)
          /\ PurgeDiff(Listing(fs, unlistable), FromRoot(cmd), ToRoot(cmd), "FilesOnly")
                # PurgeDiff(fs, FromRoot(cmd), ToRoot(cmd), "FilesOnly")
    /\ \E d \in {PurgeDiff(Listing(fs, unlistable), FromRoot(cmd), ToRoot(cmd),
                            "FilesOnly")} :
          /\ produced' = produced \o d.thrown
          /\ result' = d.result
          /\ todo' = d.paths
          /\ pc' = IF d.ok THEN "purgeFiles" ELSE "done"
          /\ msgs' = msgs \o <<ProgressEnd("DeletingDirs")>>
                          \o (IF d.ok THEN <<ProgressStart(Len(d.paths), "DeletingFiles")>>
                              ELSE <<>>)
    /\ fileErrors' = <<>>
    /\ faults' = IF unlistable = NoPath THEN faults ELSE faults + 1
    /\ UNCHANGED <<yielded, inflight, cpus, fs, cmd, rd, errors, unreach, deleted, runs, fsStart, assertOk>>

\* what the stream that deletes files does for one file; removeOk is the outcome
\* of tokio::fs::remove_file
DeleteFileIteration(f, file, removeOk) ==
    IF removeOk /\ IsFile(f, file)
    THEN Outcome(RemoveFile(f, file),
                 <<Info("StartDeletingFile", NoPath, file),
                   Increment("DeletedFile", NoPath, file)>>, <<>>, TRUE)
    ELSE Outcome(f, <<Info("StartDeletingFile", NoPath, file)>>,
                 <<PPE(file, "CannotDeleteFile", NoPath)>>, TRUE)

PurgeFilesStep(removeOk) ==
    /\ pc = "purgeFiles"
    /\ todo # <<>>
    /\ \E o \in {DeleteFileIteration(fs, Head(todo), removeOk)} :
          /\ removeOk \/
             (faults < MaxFaults /\ o # DeleteFileIteration(fs, Head(todo), TRUE))
          /\ fs' = o.fs
          /\ msgs' = msgs \o o.msgs
          /\ fileErrors' = fileErrors \o o.errors
          /\ produced' = produced \o o.errors
    /\ todo' = Tail(todo)
    /\ faults' = IF removeOk THEN faults ELSE faults + 1
    /\ UNCHANGED <<yielded, inflight, cpus, pc, cmd, rd, errors, unreach, deleted, result, runs, fsStart, assertOk>>

\* what the purge returns at its end
PurgeResult(es, errors_file) ==
    IF es # <<>> \/ errors_file # <<>>
    THEN FileBackupErrors(es \o errors_file)
    ELSE Ok

PurgeEnd ==
    /\ pc = "purgeFiles"
    /\ todo = <<>>
    /\ inflight = <<>>
    /\ msgs' = Append(msgs, ProgressEnd("DeletingFiles"))
    /\ errors' = errors \o fileErrors
    /\ result' = PurgeResult(errors, fileErrors)
    /\ pc' = "done"
    /\ UNCHANGED <<yielded, inflight, cpus, fs, cmd, rd, fileErrors, unreach, todo, deleted, produced, runs,
                   fsStart, assertOk, faults>>

Next ==
    \/ \E c \in Commands, createOk \in BOOLEAN : RunValidate(c, createOk)
    \/ \E opened \in 0..2 : CreateDirsBegin(opened)
    \/ \E createOk \in BOOLEAN : CreateDirsStep(createOk)
    \/ CreateDirsEnd
    \/ \E opened \in 0..2 : CopyBegin(opened)
    \/ \E env \in Envs : CopyStep(env)
    \/ CopyEnd
    \/ PurgeDirsBegin
    \/ \E removeOk \in BOOLEAN : PurgeDirsStep(removeOk)
    \/ \E unlistable \in AllPaths \cup {NoPath} : PurgeFilesBegin(unlistable)
    \/ \E removeOk \in BOOLEAN : PurgeFilesStep(removeOk)
    \/ PurgeEnd

Spec == Init /\ [][Next]_vars

(***************************************************************************)
(* A RecursiveReadDir iterated on its own, over every tree of a root with  *)
(* the entries a, b, b/c, b/c/d and e.  An entry is a file, a directory    *)
(* that can or cannot be listed, or a slot whose read fails; what lies in  *)
(* a directory that cannot be listed is there all the same.  The walker is *)
(* the one try_new returns for the root, in either mode; next() is called  *)
(* until it returns None, and once more after that.                        *)
(***************************************************************************)
WalkRelPaths == {<<"a">>, <<"b">>, <<"b", "c">>, <<"b", "c", "d">>, <<"e">>}
WalkPaths == {SRoot} \cup {Join(SRoot, p) : p \in WalkRelPaths}
WalkEntries == {Absent, File(1, 1), Dir(TRUE), Dir(FALSE), Broken}

WalkTrees ==
    {t \in [WalkPaths -> WalkEntries] :
        /\ t[SRoot] = Dir(TRUE)
        /\ \A p \in WalkPaths \ {SRoot} : Exists(t, p) => IsDir(t, Parent(p))}

ReadDirTypes == {"FilesOnly", "DirectoriesOnly"}

WalkInit ==
    /\ fs \in WalkTrees
    /\ rd \in {TryNew(fs, SRoot, t) : t \in ReadDirTypes}
    /\ pc = "walk"
    /\ yielded = <<>>
    /\ inflight = <<>>
    /\ cpus = 1
    /\ cmd = NoCommand
    /\ errors = <<>>
    /\ fileErrors = <<>>
    /\ unreach = <<>>
    /\ todo = <<>>
    /\ deleted = <<>>
    /\ msgs = <<>>
    /\ result = NoResult
    /\ produced = <<>>
    /\ runs = <<>>
    /\ fsStart = fs
    /\ assertOk = TRUE
    /\ faults = 0

\* next() returns Some(item)
WalkStep ==
    /\ pc = "walk"
    /\ \E n \in {WalkNext(fs, rd)} :
          /\ n.item.tag # "none"
          /\ yielded' = Append(yielded, n.item)
          /\ rd' = n.w
    /\ UNCHANGED <<fs, pc, cmd, errors, fileErrors, unreach, todo, deleted, msgs, result,
                   produced, runs, fsStart, assertOk, faults>>
    /\ UNCHANGED <<inflight, cpus>>

\* next() returns None
WalkEnd ==
    /\ pc = "walk"
    /\ \E n \in {WalkNext(fs, rd)} :
          /\ n.item.tag = "none"
          /\ rd' = n.w
    /\ pc' = "walked"
    /\ UNCHANGED <<fs, cmd, errors, fileErrors, unreach, todo, deleted, msgs, result,
                   produced, runs, fsStart, assertOk, faults, yielded>>
    /\ UNCHANGED <<inflight, cpus>>

\* next() called again after it has returned None
WalkAfterEnd ==
    /\ pc = "walked"
    /\ \E n \in {WalkNext(fs, rd)} :
          /\ yielded' = IF n.item.tag = "none" THEN yielded ELSE Append(yielded, n.item)
          /\ rd' = n.w
    /\ pc' = "ended"
    /\ UNCHANGED <<fs, cmd, errors, fileErrors, unreach, todo, deleted, msgs, result,
                   produced, runs, fsStart, assertOk, faults>>
    /\ UNCHANGED <<inflight, cpus>>

WalkerNext ==
    \/ WalkStep
    \/ WalkEnd
    \/ WalkAfterEnd

WalkSpec == WalkInit /\ [][WalkerNext]_vars

(***************************************************************************)
(* The program with the buffers of its two file streams.                   *)
(*                                                                         *)
(* backup_all_files and the file deletion of the purge map every item of   *)
(* their stream to a future and run the futures through                    *)
(* buffer_unordered(cpu_count()): the buffer takes the next item while it  *)
(* holds fewer than cpu_count() futures, and a future it holds completes   *)
(* at any time, in any order.  What a future does for its file is one      *)
(* step.  In Spec above cpu_count() is 1 and an item is taken and          *)
(* completed in one step; here cpu_count() is any number up to MaxCpus.    *)
(* The files are all File(1, 1).                                           *)
(***************************************************************************)
MaxCpus == 2

\* a variant for a host that reports no parallelism at all
CpuCountsFromZero == 0..MaxCpus

\* cpu_count(): available_parallelism() is a NonZero, the fallback is 1
CpuCounts == 1..MaxCpus

PoolFileSystems ==
    {f \in FileSystems : \A p \in AllPaths : IsFile(f, p) => f[p] = File(1, 1)}

PoolInit ==
    /\ fs \in PoolFileSystems
    /\ pc = "idle"
    /\ cmd = NoCommand
    /\ rd = NoWalker
    /\ errors = <<>>
    /\ fileErrors = <<>>
    /\ unreach = <<>>
    /\ todo = <<>>
    /\ deleted = <<>>
    /\ msgs = <<>>
    /\ result = NoResult
    /\ produced = <<>>
    /\ runs = <<>>
    /\ fsStart = fs
    /\ assertOk = TRUE
    /\ faults = 0
    /\ yielded = <<>>
    /\ inflight = <<>>
    /\ cpus \in CpuCounts

\* seq without its i-th element
RemoveAt(seq, i) == SubSeq(seq, 1, i - 1) \o SubSeq(seq, i + 1, Len(seq))

\* the buffer of backup_all_files takes the next item of the walker
PoolCopyPull ==
    /\ pc = "copyLoop"
    /\ Len(inflight) < cpus
    /\ \E n \in {WalkNext(fs, rd)} :
          /\ n.item.tag # "none"
          /\ inflight' = Append(inflight, n.item)
          /\ rd' = n.w
    /\ UNCHANGED <<fs, pc, cmd, errors, fileErrors, unreach, todo, deleted, msgs, result,
                   produced, runs, fsStart, assertOk, faults, yielded, cpus>>

\* the i-th future of the buffer of backup_all_files completes
PoolCopyFinish(i, env) ==
    /\ pc = "copyLoop"
    /\ i \in 1..Len(inflight)
    /\ \E o \in {CopyIteration(fs, unreach, inflight[i], FromRoot(cmd), ToRoot(cmd), Now,
                               env)} :
          /\ faults + Failures(env) <= MaxFaults
          /\ \A env2 \in Envs :
                Milder(env2, env) =>
                    o # CopyIteration(fs, unreach, inflight[i], FromRoot(cmd), ToRoot(cmd),
                                      Now, env2)
          /\ fs' = o.fs
          /\ msgs' = msgs \o o.msgs
          /\ fileErrors' = fileErrors \o o.errors
          /\ produced' = produced \o o.errors
          /\ assertOk' = (assertOk /\ o.assertOk)
    /\ inflight' = RemoveAt(inflight, i)
    /\ faults' = faults + Failures(env)
    /\ UNCHANGED <<pc, cmd, rd, errors, unreach, todo, deleted, result, runs, fsStart,
                   yielded, cpus>>

\* the buffer of the file deletion takes the next of files_to_delete
PoolDeletePull ==
    /\ pc = "purgeFiles"
    /\ Len(inflight) < cpus
    /\ todo # <<>>
    /\ inflight' = Append(inflight, ItemOk(Head(todo)))
    /\ todo' = Tail(todo)
    /\ UNCHANGED <<fs, pc, cmd, rd, errors, fileErrors, unreach, deleted, msgs, result,
                   produced, runs, fsStart, assertOk, faults, yielded, cpus>>

\* the i-th future of the buffer of the file deletion completes
PoolDeleteFinish(i, removeOk) ==
    /\ pc = "purgeFiles"
    /\ i \in 1..Len(inflight)
    /\ \E o \in {DeleteFileIteration(fs, inflight[i].path, removeOk)} :
          /\ removeOk \/
             (faults < MaxFaults /\ o # DeleteFileIteration(fs, inflight[i].path, TRUE))
          /\ fs' = o.fs
          /\ msgs' = msgs \o o.msgs
          /\ fileErrors' = fileErrors \o o.errors
          /\ produced' = produced \o o.errors
    /\ inflight' = RemoveAt(inflight, i)
    /\ faults' = IF removeOk THEN faults ELSE faults + 1
    /\ UNCHANGED <<pc, cmd, rd, errors, unreach, todo, deleted, result, runs, fsStart,
                   assertOk, yielded, cpus>>

PoolNext ==
    \/ \E c \in Commands, createOk \in BOOLEAN : RunValidate(c, createOk)
    \/ \E opened \in 0..2 : CreateDirsBegin(opened)
    \/ \E createOk \in BOOLEAN : CreateDirsStep(createOk)
    \/ CreateDirsEnd
    \/ \E opened \in 0..2 : CopyBegin(opened)
    \/ PoolCopyPull
    \/ \E i \in 1..MaxCpus, env \in Envs : PoolCopyFinish(i, env)
    \/ CopyEnd
    \/ PurgeDirsBegin
    \/ \E removeOk \in BOOLEAN : PurgeDirsStep(removeOk)
    \/ \E unlistable \in AllPaths \cup {NoPath} : PurgeFilesBegin(unlistable)
    \/ PoolDeletePull
    \/ \E i \in 1..MaxCpus, removeOk \in BOOLEAN : PoolDeleteFinish(i, removeOk)
    \/ PurgeEnd

PoolSpec == PoolInit /\ [][PoolNext]_vars

\* the steps of the two streams; the executor keeps polling a stream that is
\* awaited, so a stream that can take a step does not stand still for ever
PoolProgress ==
    \/ PoolCopyPull
    \/ \E i \in 1..MaxCpus, env \in Envs : PoolCopyFinish(i, env)
    \/ CopyEnd
    \/ PoolDeletePull
    \/ \E i \in 1..MaxCpus, removeOk \in BOOLEAN : PoolDeleteFinish(i, removeOk)
    \/ PurgeEnd

\* the trees the fair runs start from: both roots are directories, every
\* directory can be listed, S/a is a file, D/a is missing, and D holds no
\* directory below its root
LiveFileSystems ==
    {f \in PoolFileSystems :
        /\ \A p \in AllPaths : IsDir(f, p) => f[p].readable
        /\ IsDir(f, SRoot) /\ IsDir(f, DRoot)
        /\ IsFile(f, Join(SRoot, <<"a">>)) /\ ~Exists(f, Join(DRoot, <<"a">>))
        /\ \A p \in Under(DRoot) \ {DRoot} : ~IsDir(f, p)}

PoolLiveInit == PoolInit /\ fs \in LiveFileSystems

PoolLive == PoolLiveInit /\ [][PoolNext]_vars /\ WF_vars(PoolProgress)

\* the steps of a command that has begun: run() is awaited to its end, and
\* none of its steps waits for anything but the file system
RunProgress ==
    \/ \E opened \in 0..2 : CreateDirsBegin(opened)
    \/ \E createOk \in BOOLEAN : CreateDirsStep(createOk)
    \/ CreateDirsEnd
    \/ \E opened \in 0..2 : CopyBegin(opened)
    \/ PurgeDirsBegin
    \/ \E removeOk \in BOOLEAN : PurgeDirsStep(removeOk)
    \/ \E unlistable \in AllPaths \cup {NoPath} : PurgeFilesBegin(unlistable)
    \/ PoolProgress

RunLive == PoolLiveInit /\ [][PoolNext]_vars /\ WF_vars(RunProgress)

(***************************************************************************)
(* The legacy single binary (src/main.rs): one backup of S into D, without *)
(* messages to a channel.  Its errors are pairs (path, FileBackupError),   *)
(* written here PPE(path, kind, at).  A tree has the entries a, b, b/c and *)
(* b/d under each root; an entry of S may be a slot whose read fails.      *)
(* Metadata and digests are read without failure.  What the binary prints  *)
(* for a file (println!) is kept in msgs, and the items the two walkers    *)
(* return are kept in yielded.                                             *)
(***************************************************************************)
LegacyRelPaths == {<<"a">>, <<"b">>, <<"b", "c">>, <<"b", "d">>}
LegacyPaths == Roots \cup {Join(r, p) : r \in Roots, p \in LegacyRelPaths}

LegacySourceEntries == {Absent, File(1, 1), Dir(TRUE), Dir(FALSE), Broken}
LegacyDestinationEntries == {Absent, File(1, 1), File(2, 2), Dir(TRUE)}

\* the trees a root can hold: the root is one of rootEntries, what lies below
\* it is one of entries and stands in a directory that can be listed
LegacyTreesOf(root, rootEntries, entries) ==
    {t \in [{root} \cup {Join(root, q) : q \in LegacyRelPaths} -> rootEntries \cup entries] :
        /\ t[root] \in rootEntries
        /\ \A q \in LegacyRelPaths :
              /\ t[Join(root, q)] \in entries
              /\ Exists(t, Join(root, q)) => CanReadDir(t, Parent(Join(root, q)))}

LegacyTrees ==
    {ts @@ td :
        ts \in LegacyTreesOf(SRoot, {Absent, File(1, 1), Dir(TRUE), Dir(FALSE)},
                             LegacySourceEntries),
        td \in LegacyTreesOf(DRoot, {Absent, File(1, 1), Dir(TRUE)},
                             LegacyDestinationEntries)}

\* RecurseDirectories::try_from and RecurseFiles::try_from (called when
\* read_dir succeeds on the directory)
LegacyTryFrom(f, directory) ==
    [for_root |-> directory,
     current_readdir |-> ReadDir(f, directory),
     next_readdirs |-> <<>>,
     current_dirpath |-> directory]

\* RecurseDirectories::next: the item returned and the walker afterwards.  An
\* entry whose read fails gives the error (current_dirpath, CannotGetDirEntry)
RECURSIVE RecurseDirectoriesNext(_, _)
RecurseDirectoriesNext(f, w) ==
    IF w.current_readdir # <<>>
    THEN LET path == Head(w.current_readdir)
             w1 == [w EXCEPT !.current_readdir = Tail(@)]
         IN IF f[path] = Broken
            THEN [item |-> ItemErr(PPE(w.current_dirpath, "CannotGetDirEntry", NoPath)),
                  w |-> w1]
            ELSE IF IsDir(f, path)
            THEN RecurseDirectoriesNext(f, [w1 EXCEPT !.next_readdirs = Append(@, path)])
            ELSE RecurseDirectoriesNext(f, w1)
    ELSE IF w.next_readdirs # <<>>
    THEN LET next_readdir == Head(w.next_readdirs)
             w1 == [w EXCEPT !.next_readdirs = Tail(@)]
         IN IF CanReadDir(f, next_readdir)
            THEN [item |-> ItemOk(next_readdir),
                  w |-> [w1 EXCEPT !.current_readdir = ReadDir(f, next_readdir),
                                   !.current_dirpath = next_readdir]]
            ELSE [item |-> ItemErr(PPE(next_readdir, "CannotReadDirectoryContent", NoPath)),
                  w |-> w1]
    ELSE [item |-> ItemNone, w |-> w]

\* RecurseFiles::next
RECURSIVE RecurseFilesNext(_, _)
RecurseFilesNext(f, w) ==
    IF w.current_readdir # <<>>
    THEN LET path == Head(w.current_readdir)
             w1 == [w EXCEPT !.current_readdir = Tail(@)]
         IN IF f[path] = Broken
            THEN [item |-> ItemErr(PPE(w.current_dirpath, "CannotGetDirEntry", NoPath)),
                  w |-> w1]
            ELSE IF IsDir(f, path)
            THEN RecurseFilesNext(f, [w1 EXCEPT !.next_readdirs = Append(@, path)])
            ELSE [item |-> ItemOk(path), w |-> w1]
    ELSE IF w.next_readdirs # <<>>
    THEN LET next_readdir == Head(w.next_readdirs)
             w1 == [w EXCEPT !.next_readdirs = Tail(@)]
         IN IF CanReadDir(f, next_readdir)
            THEN RecurseFilesNext(f, [w1 EXCEPT !.current_readdir = ReadDir(f, next_readdir),
                                                !.current_dirpath = next_readdir])
            ELSE [item |-> ItemErr(PPE(next_readdir, "CannotReadDirectoryContent", NoPath)),
                  w |-> w1]
    ELSE [item |-> ItemNone, w |-> w]

\* get_destination_file_path of the binary
LegacyGetDestinationFilePath(destination_root, source_root, source_path) ==
    IF StartsWith(source_path, source_root)
    THEN [ok |-> TRUE,
          path |-> Join(destination_root, StripPrefix(source_path, source_root)),
          error |-> PPE(NoPath, "", NoPath)]
    ELSE [ok |-> FALSE, path |-> NoPath,
          error |-> PPE(source_path, "CouldNotGenerateDestinationPath", NoPath)]

\* create_single_directory; createOk is the outcome of std::fs::create_dir
CreateSingleDirectory(f, source_directory_root, destination_directory_root, source_directory, createOk) ==
    LET dest == LegacyGetDestinationFilePath(destination_directory_root,
                                             source_directory_root, source_directory)
        new_destination_file == dest.path
        a == IsDir(f, source_directory)
    IN IF ~dest.ok THEN Outcome(f, <<>>, <<dest.error>>, a)
       ELSE IF Exists(f, new_destination_file)
       THEN IF IsDir(f, new_destination_file)
            THEN Outcome(f, <<>>, <<>>, a)
            ELSE Outcome(f, <<>>,
                         <<PPE(source_directory, "DestinationForSourceDirExistsAsFile",
                               new_destination_file)>>, a)
       ELSE IF CreateDirSucceeds(f, new_destination_file, createOk)
            THEN Outcome([f EXCEPT ![new_destination_file] = Dir(TRUE)], <<>>, <<>>, a)
            ELSE Outcome(f, <<>>,
                         <<PPE(source_directory, "CannotCreateDestinationDir",
                               new_destination_file)>>, a)

\* skip_copy of the binary
LegacySkipCopy(f, source_file, destination_file) ==
    /\ Exists(f, destination_file)
    /\ FileMetaData(f, source_file) = FileMetaData(f, destination_file)
    /\ f[source_file].content = f[destination_file].content

\* std::fs::copy succeeds; copyOk is what the environment answers
LegacyCopySucceeds(f, source_file, destination_file, copyOk) ==
    /\ copyOk
    /\ IsFile(f, source_file)
    /\ ~IsDir(f, destination_file)
    /\ IsDir(f, Parent(destination_file))

\* backup_single_file and copy_if_newer
LegacyBackupSingleFile(f, source_directory_root, destination_directory_root, source_file, copyOk) ==
    LET dest == LegacyGetDestinationFilePath(destination_directory_root,
                                             source_directory_root, source_file)
        destination_file == dest.path
        a == ~IsDir(f, source_file) /\ (dest.ok => ~IsDir(f, destination_file))
    IN IF ~dest.ok THEN Outcome(f, <<>>, <<dest.error>>, ~IsDir(f, source_file))
       ELSE IF LegacySkipCopy(f, source_file, destination_file)
       THEN Outcome(f, <<Info("NotCopying", source_file, destination_file)>>, <<>>, a)
       ELSE IF LegacyCopySucceeds(f, source_file, destination_file, copyOk)
       THEN Outcome([f EXCEPT ![destination_file] = f[source_file]],
                    <<Info("Copy", source_file, destination_file)>>, <<>>, a)
       ELSE Outcome(f, <<Info("Copy", source_file, destination_file)>>,
                    <<PPE(source_file, "CannotCopyFile", destination_file)>>, a)

\* errors.iter().any(|(d, _)| source_directory.starts_with(d)), and the same
\* test of backup_all_files on the paths of the errors of the directories
LegacyUnder(paths, source_path) ==
    \E i \in 1..Len(paths) : StartsWith(source_path, paths[i])

\* errors.iter().map(|(p, _)| p.as_path()).collect()
LegacyErrorPaths(es) == [i \in 1..Len(es) |-> es[i].not_processed]

LegacyInit ==
    /\ fs \in LegacyTrees
    /\ pc = "legacy"
    /\ cmd = NoCommand
    /\ rd = NoWalker
    /\ errors = <<>>
    /\ fileErrors = <<>>
    /\ unreach = <<>>
    /\ todo = <<>>
    /\ deleted = <<>>
    /\ msgs = <<>>
    /\ result = NoResult
    /\ produced = <<>>
    /\ runs = <<>>
    /\ fsStart = fs
    /\ assertOk = TRUE
    /\ faults = 0
    /\ yielded = <<>>
    /\ inflight = <<>>
    /\ cpus = 1

\* run() of the binary up to the first walker; createOk is the outcome of
\* std::fs::create_dir_all for the destination root
LegacyRunValidate(createOk) ==
    /\ pc = "legacy"
    /\ createOk \/ faults < MaxFaults
    /\ LET f1 == IF ~Exists(fs, DRoot) /\ createOk
                 THEN [fs EXCEPT ![DRoot] = Dir(TRUE)] ELSE fs
       IN IF ~Exists(fs, SRoot)
          THEN /\ result' = Fatal("SourceRootPathDoesNotExist", SRoot)
               /\ pc' = "done"
               /\ UNCHANGED <<fs, rd>>
          ELSE IF ~Exists(fs, DRoot) /\ ~createOk
          THEN /\ result' = Fatal("CannotCreateRootDestinationDir", DRoot)
               /\ pc' = "done"
               /\ UNCHANGED <<fs, rd>>
          ELSE IF ~IsDir(f1, DRoot)
          THEN /\ result' = Fatal("RootDestinatinIsNotADirectory", DRoot)
               /\ pc' = "done"
               /\ UNCHANGED <<fs, rd>>
          ELSE IF ~CanReadDir(f1, SRoot)
          THEN /\ result' = Fatal("CannotReadDirectoryContent", SRoot)
               /\ pc' = "done"
               /\ fs' = f1
               /\ UNCHANGED rd
          ELSE /\ rd' = LegacyTryFrom(f1, SRoot)
               /\ pc' = "legacyDirs"
               /\ fs' = f1
               /\ UNCHANGED result
    /\ faults' = IF createOk THEN faults ELSE faults + 1
    /\ UNCHANGED <<cmd, errors, fileErrors, unreach, todo, deleted, msgs, produced, runs,
                   fsStart, assertOk, yielded, inflight, cpus>>

\* one iteration of the loop of create_all_directories_in_destination
LegacyCreateDirsStep(createOk) ==
    /\ pc = "legacyDirs"
    /\ createOk \/ faults < MaxFaults
    /\ \E n \in {RecurseDirectoriesNext(fs, rd)} :
          /\ n.item.tag # "none"
          /\ rd' = n.w
          /\ yielded' = Append(yielded, n.item)
          /\ IF n.item.tag = "err"
             THEN /\ errors' = Append(errors, n.item.error)
                  /\ UNCHANGED <<fs, assertOk>>
             ELSE IF LegacyUnder(LegacyErrorPaths(errors), n.item.path)
             THEN UNCHANGED <<fs, errors, assertOk>>
             ELSE \E o \in {CreateSingleDirectory(fs, SRoot, DRoot, n.item.path, createOk)} :
                     /\ fs' = o.fs
                     /\ errors' = errors \o o.errors
                     /\ assertOk' = (assertOk /\ o.assertOk)
    /\ faults' = IF createOk THEN faults ELSE faults + 1
    /\ UNCHANGED <<pc, cmd, fileErrors, unreach, todo, deleted, msgs, result, produced, runs,
                   fsStart, inflight, cpus>>

\* the loop is over: run() takes the paths of the errors and makes the walker
\* of the files
LegacyCreateDirsEnd ==
    /\ pc = "legacyDirs"
    /\ RecurseDirectoriesNext(fs, rd).item.tag = "none"
    /\ unreach' = LegacyErrorPaths(errors)
    /\ IF CanReadDir(fs, SRoot)
       THEN /\ rd' = LegacyTryFrom(fs, SRoot)
            /\ pc' = "legacyFiles"
            /\ UNCHANGED result
       ELSE /\ result' = Fatal("CannotReadDirectoryContent", SRoot)
            /\ pc' = "done"
            /\ UNCHANGED rd
    /\ UNCHANGED <<fs, cmd, errors, fileErrors, todo, deleted, msgs, produced, runs, fsStart,
                   assertOk, faults, yielded, inflight, cpus>>

\* one iteration of the loop of backup_all_files; copyOk is the outcome of
\* std::fs::copy
LegacyCopyStep(copyOk) ==
    /\ pc = "legacyFiles"
    /\ copyOk \/ faults < MaxFaults
    /\ \E n \in {RecurseFilesNext(fs, rd)} :
          /\ n.item.tag # "none"
          /\ rd' = n.w
          /\ yielded' = Append(yielded, n.item)
          /\ IF n.item.tag = "err"
             THEN /\ fileErrors' = Append(fileErrors, n.item.error)
                  /\ UNCHANGED <<fs, msgs, assertOk>>
             ELSE IF LegacyUnder(unreach, n.item.path)
             THEN UNCHANGED <<fs, msgs, fileErrors, assertOk>>
             ELSE \E o \in {LegacyBackupSingleFile(fs, SRoot, DRoot, n.item.path, copyOk)} :
                     /\ fs' = o.fs
                     /\ msgs' = msgs \o o.msgs
                     /\ fileErrors' = fileErrors \o o.errors
                     /\ assertOk' = (assertOk /\ o.assertOk)
    /\ faults' = IF copyOk THEN faults ELSE faults + 1
    /\ UNCHANGED <<pc, cmd, errors, unreach, todo, deleted, result, produced, runs, fsStart,
                   inflight, cpus>>

\* errors.append(&mut file_backup_errors) and the result of run()
LegacyEnd ==
    /\ pc = "legacyFiles"
    /\ RecurseFilesNext(fs, rd).item.tag = "none"
    /\ errors' = errors \o fileErrors
    /\ produced' = errors \o fileErrors
    /\ result' = IF errors \o fileErrors = <<>> THEN Ok
                 ELSE FileBackupErrors(errors \o fileErrors)
    /\ pc' = "done"
    /\ UNCHANGED <<fs, cmd, rd, fileErrors, unreach, todo, deleted, msgs, runs, fsStart,
                   assertOk, faults, yielded, inflight, cpus>>

LegacyNext ==
    \/ \E createOk \in BOOLEAN : LegacyRunValidate(createOk)
    \/ \E createOk \in BOOLEAN : LegacyCreateDirsStep(createOk)
    \/ LegacyCreateDirsEnd
    \/ \E copyOk \in BOOLEAN : LegacyCopyStep(copyOk)
    \/ LegacyEnd

LegacySpec == LegacyInit /\ [][LegacyNext]_vars

(***************************************************************************)
(* Vocabulary of the properties.                                           *)
(***************************************************************************)
\* the entries strictly below a root
Below(root) == Under(root) \ {root}

\* the counterpart of a path of one root under the other root
Counterpart(p, from, to) == Join(to, StripPrefix(p, from))

\* the relative paths of the entries of one kind below a root
RelPathsOf(f, root, kind) ==
    {StripPrefix(p, root) : p \in {q \in Below(root) : f[q].kind = kind}}

HasMsg(ms, type, what) ==
    \E i \in 1..Len(ms) : ms[i].type = type /\ ms[i].what = what

HasMsgFor(ms, type, what, source) ==
    \E i \in 1..Len(ms) :
        ms[i].type = type /\ ms[i].what = what /\ ms[i].source = source

HasWarning(ms) == \E i \in 1..Len(ms) : ms[i].type = "Warning"

HasProgress(ms) == \E i \in 1..Len(ms) : ms[i].type \in {"Start", "Increment", "End"}

Finished(kind) == pc = "done" /\ cmd.kind = kind

\* the second run of a session has ended
SecondFinished(first, second) ==
    /\ pc = "done"
    /\ Len(runs) = 1
    /\ runs[1].cmd.kind = first
    /\ cmd.kind = second

RootValidationErrors ==
    {"SourceRootPathDoesNotExist", "CannotCreateRootDestinationDir",
     "RootDestinatinIsNotADirectory"}

(***************************************************************************)
(* C1.  After Backup(S, D) returns success, every file under S has a file  *)
(* at the same relative path under D with the same content.                *)
(* Violated: skip_copy skips the file when a hash cannot be computed.      *)
(***************************************************************************)
C1_BackupSuccessCopiesEveryFile ==
    (Finished("Backup") /\ result = Ok) =>
        \A p \in Below(SRoot) :
            IsFile(fs, p) =>
                /\ IsFile(fs, Counterpart(p, SRoot, DRoot))
                /\ fs[Counterpart(p, SRoot, DRoot)].content = fs[p].content

(***************************************************************************)
(* C2.  Backup never deletes: throughout a Backup and after it, whatever   *)
(* its outcome, every file and directory that was under D when it started  *)
(* is still there, and S is as it was.                                     *)
(***************************************************************************)
C2_BackupNeverDeletes ==
    cmd.kind = "Backup" =>
        /\ \A p \in Under(DRoot) :
              Exists(fsStart, p) => fs[p].kind = fsStart[p].kind
        /\ \A p \in Under(SRoot) : fs[p] = fsStart[p]

\* a Backup has ended with errors, having overwritten a file of D and created
\* another entry, beside a destination-only directory that it left alone
C2_Witness ==
    /\ Finished("Backup")
    /\ result.kind = "FileBackupErrors"
    /\ \E p \in Below(DRoot) : IsFile(fsStart, p) /\ fs[p] # fsStart[p]
    /\ \E p \in Below(DRoot) :
          /\ IsDir(fsStart, p) /\ IsDir(fs, p)
          /\ ~Exists(fsStart, Counterpart(p, DRoot, SRoot))

(***************************************************************************)
(* C3.  Sync purge law.                                                    *)
(* As claimed: after Sync(S, D) has run (its roots having passed           *)
(* validation), the relative paths under D are exactly those under S.      *)
(***************************************************************************)
SameRelativePaths ==
    /\ RelPathsOf(fs, DRoot, "dir") = RelPathsOf(fs, SRoot, "dir")
    /\ RelPathsOf(fs, DRoot, "file") = RelPathsOf(fs, SRoot, "file")

C3_SyncMirrorsAfterAnyRun ==
    (Finished("Sync") /\ result.kind \notin RootValidationErrors) =>
        SameRelativePaths

\* C3 for the runs that end well: after Sync(S, D) has returned success, the
\* relative paths (directories and files) under D are exactly those under S.
C3_SyncMirrorsAfterSuccess ==
    (Finished("Sync") /\ result = Ok) => SameRelativePaths

\* a Sync has succeeded after copying a file and deleting a file that was only
\* under D
C3_Witness ==
    /\ Finished("Sync")
    /\ result = Ok
    /\ HasMsg(msgs, "Increment", "FileCopied")
    /\ HasMsg(msgs, "Increment", "DeletedFile")
    /\ \E p \in Below(DRoot) : Exists(fsStart, p) /\ ~Exists(fs, p)

(***************************************************************************)
(* C4.  Idempotence of Backup.                                             *)
(* As claimed: when Backup(S, D) has run twice in succession, both times   *)
(* with success, the second run copies nothing: every source file yields   *)
(* SkippingFileNoModification, none yields FileCopied, and the contents of *)
(* the destination are as the first run left them.                         *)
(***************************************************************************)
SecondRunCopiesNothing ==
    /\ \A p \in Below(SRoot) :
          IsFile(fs, p) =>
              HasMsgFor(msgs, "Increment", "SkippingFileNoModification", p)
    /\ ~HasMsg(msgs, "Increment", "FileCopied")
    /\ \A p \in Under(DRoot) :
          fs[p].kind = fsStart[p].kind /\ fs[p].content = fsStart[p].content

C5_RestoreThenSyncLeavesDestination ==
    (SecondFinished("Restore", "Sync") /\ runs[1].result = Ok /\ result = Ok) =>
        \A p \in Below(DRoot) :
            /\ fs[p].kind = runs[1].fsStart[p].kind
            /\ fs[p].content = runs[1].fsStart[p].content

(***************************************************************************)
(* C6.  In Sync and in Restore with deleteFiles, the purge is carried out  *)
(* also when the mirror and copy phases recorded errors.                   *)
(* Violated: run() returns the errors of backup() at once.                 *)
(***************************************************************************)
MirrorAndCopyErrors ==
    {"CannotCreateDestinationDir", "DestinationForSourceDirExistsAsFile",
     "CannotCopyFile"}

C6_PurgeCarriedOutAfterErrors ==
    (/\ pc = "done"
     /\ cmd.kind = "Sync" \/ (cmd.kind = "Restore" /\ cmd.delete_files)
     /\ \E i \in 1..Len(produced) : produced[i].kind \in MirrorAndCopyErrors) =>
        HasMsg(msgs, "Start", "DeletingDirs")

(***************************************************************************)
(* C7.  When run() returns success or the aggregated error, it returns     *)
(* success exactly when no ProcessPathError was produced, and the          *)
(* aggregated error holds every ProcessPathError produced.                 *)
(* Violated: the purge returns the error of its second diff alone and      *)
(* drops the errors of the directories it could not delete.                *)
(***************************************************************************)
C7_AggregatedErrorHoldsEveryError ==
    (pc = "done" /\ result.kind \in {"Ok", "FileBackupErrors"}) =>
        /\ result = Ok <=> produced = <<>>
        /\ Range(produced) \subseteq Range(result.errors)

(***************************************************************************)
(* C8.  A file for which Warning(CannotGetHash) was sent is copied, never  *)
(* skipped.                                                                *)
(* Violated: skip_copy sends the warning and then returns true.            *)
(***************************************************************************)
C8_CannotGetHashMeansCopy ==
    \A i \in 1..Len(msgs) :
        (msgs[i].type = "Warning" /\ msgs[i].what = "CannotGetHash") =>
            ~HasMsgFor(msgs, "Increment", "SkippingFileNoModification", msgs[i].source)

(***************************************************************************)
(* C9.  A source directory b whose counterpart in the destination exists   *)
(* and is not a directory.                                                 *)
(* As claimed: Backup records exactly one                                  *)
(* DestinationForSourceDirExistsAsFile error, for b, no error for anything *)
(* under b, and every source file that is not under b is still copied.     *)
(***************************************************************************)
SourceDirOverFile(b) ==
    /\ IsDir(fsStart, b)
    /\ Exists(fsStart, Counterpart(b, SRoot, DRoot))
    /\ ~IsDir(fsStart, Counterpart(b, SRoot, DRoot))

OneErrorFor(b) ==
    Cardinality({i \in 1..Len(produced) :
                    /\ produced[i].kind = "DestinationForSourceDirExistsAsFile"
                    /\ produced[i].not_processed = b}) = 1

NoErrorUnder(b) ==
    \A i \in 1..Len(produced) :
        \/ produced[i].not_processed = b
        \/ ~StartsWith(produced[i].not_processed, b)

Copied(p) ==
    \/ HasMsgFor(msgs, "Increment", "FileCopied", p)
    \/ HasMsgFor(msgs, "Increment", "SkippingFileNoModification", p)

Attempted(p) ==
    \/ Copied(p)
    \/ \E i \in 1..Len(produced) :
          produced[i].kind = "CannotCopyFile" /\ produced[i].not_processed = p

C9_DirOverFileAsClaimed ==
    Finished("Backup") =>
        \A b \in Below(SRoot) :
            SourceDirOverFile(b) =>
                /\ OneErrorFor(b)
                /\ NoErrorUnder(b)
                /\ \A p \in Below(SRoot) :
                      (IsFile(fsStart, p) /\ ~StartsWith(p, b)) => Attempted(p)

\* an error names d as not processed
ErrorFor(d) == \E i \in 1..Len(produced) : produced[i].not_processed = d

UnderDirWithError(p) ==
    \E d \in Below(SRoot) : d # p /\ StartsWith(p, d) /\ ErrorFor(d)

\* b and every directory under b can be listed
ListableThroughout(b) ==
    \A d \in Below(SRoot) :
        (StartsWith(d, b) /\ IsDir(fsStart, d)) => CanReadDir(fsStart, d)

\* C9 as amended: when a source directory b that can be listed, as can every
\* directory under it, has a counterpart in the destination that exists and is
\* not a directory, Backup records exactly one DestinationForSourceDirExistsAsFile error, for b, and no
\* error for anything under b, and it still handles every source file that lies
\* under no directory for which an error was recorded: the file is copied or
\* skipped as unchanged, or its own CannotCopyFile error is recorded.  All this
\* unless the run is aborted because the source root cannot be listed.
C9_ListableDirOverFile ==
    (Finished("Backup") /\ result.kind # "CannotReadDirectoryContent") =>
        \A b \in Below(SRoot) :
            (SourceDirOverFile(b) /\ ListableThroughout(b)) =>
                /\ OneErrorFor(b)
                /\ NoErrorUnder(b)
                /\ \A p \in Below(SRoot) :
                      (IsFile(fsStart, p) /\ ~UnderDirWithError(p)) => Attempted(p)

\* a Backup has ended: b holds a file and stands against a file of D, and a
\* file beside b was copied
C9_Witness ==
    /\ Finished("Backup")
    /\ \E b \in Below(SRoot) :
          /\ SourceDirOverFile(b)
          /\ CanReadDir(fsStart, b)
          /\ \E p \in Below(SRoot) : p # b /\ StartsWith(p, b) /\ IsFile(fsStart, p)
          /\ \E p \in Below(SRoot) :
                ~StartsWith(p, b) /\ HasMsgFor(msgs, "Increment", "FileCopied", p)

(***************************************************************************)
(* C10.  When the validation of the roots fails (the source root does not  *)
(* exist, the destination root cannot be created, or it exists and is not  *)
(* a directory), run() returns that error, whatever the command; it sends  *)
(* no Progress message and creates, copies and deletes nothing.            *)
(***************************************************************************)
C10_RootValidationFailureIsFatal ==
    pc # "idle" =>
        /\ ~Exists(fsStart, SRoot) =>
              result = Fatal("SourceRootPathDoesNotExist", SRoot)
        /\ (Exists(fsStart, SRoot) /\ Exists(fsStart, DRoot) /\ ~IsDir(fsStart, DRoot)) =>
              result = Fatal("RootDestinatinIsNotADirectory", DRoot)
        /\ (Exists(fsStart, SRoot) /\ ~Exists(fsStart, DRoot) /\ ~Exists(fs, DRoot)) =>
              result = Fatal("CannotCreateRootDestinationDir", DRoot)
        /\ result.kind \in RootValidationErrors =>
              /\ pc = "done"
              /\ fs = fsStart
              /\ ~HasProgress(msgs)
              /\ produced = <<>>

\* a Restore has been refused for its missing source root, beside a
\* destination root that is missing too
C10_Witness ==
    /\ Finished("Restore")
    /\ ~Exists(fsStart, SRoot)
    /\ ~Exists(fsStart, DRoot)
    /\ result = Fatal("SourceRootPathDoesNotExist", SRoot)

AlteredInDestination(p) ==
    /\ IsFile(fsStart, p)
    /\ IsFile(fsStart, Counterpart(p, SRoot, DRoot))
    /\ FileMetaData(fsStart, p) = FileMetaData(fsStart, Counterpart(p, SRoot, DRoot))
    /\ fsStart[p].content # fsStart[Counterpart(p, SRoot, DRoot)].content

BothReadable(p) ==
    /\ ~HasMsgFor(msgs, "Warning", "CannotGetHash", p)
    /\ ~HasMsgFor(msgs, "Warning", "CannotGetMetadata", p)

CopiedAgain(p) ==
    /\ HasMsgFor(msgs, "Increment", "FileCopied", p)
    /\ fs[Counterpart(p, SRoot, DRoot)].content = fs[p].content

C12_AlteredFileIsCopiedAgain ==
    Finished("Backup") =>
        \A p \in Below(SRoot) :
            (AlteredInDestination(p) /\ BothReadable(p)) => CopiedAgain(p)

\* C12 as amended: the next Backup decides MustCopy and attempts the copy (it
\* sends StartCopingFile and never SkippingFileNoModification for the file);
\* unless that copy fails with CannotCopyFile, the file is copied and the
\* destination has the content of the source afterwards.  All this unless the
\* run is aborted because the source root cannot be listed.
C12_AlteredFileIsCopiedUnlessCopyFails ==
    (Finished("Backup") /\ result.kind # "CannotReadDirectoryContent") =>
        \A p \in Below(SRoot) :
            (AlteredInDestination(p) /\ BothReadable(p)) =>
                /\ HasMsgFor(msgs, "Info", "StartCopingFile", p)
                /\ ~HasMsgFor(msgs, "Increment", "SkippingFileNoModification", p)
                /\ \/ CopiedAgain(p)
                   \/ \E i \in 1..Len(produced) :
                         /\ produced[i].kind = "CannotCopyFile"
                         /\ produced[i].not_processed = p

\* a Backup has copied again a file that differed in content alone
C12_Witness ==
    /\ Finished("Backup")
    /\ \E p \in Below(SRoot) :
          AlteredInDestination(p) /\ BothReadable(p) /\ CopiedAgain(p)

(***************************************************************************)
(* C13.  Restore(S, D, deleteFiles = false) never deletes: at every point  *)
(* of the run, every file and directory that existed under S before the    *)
(* run still exists, as what it was; and whenever any run removes an entry *)
(* under S, that run is a Restore with deleteFiles = true.                 *)
(***************************************************************************)
C13_RestoreWithoutDeleteKeepsSource ==
    /\ (cmd.kind = "Restore" /\ ~cmd.delete_files) =>
           \A p \in Under(SRoot) :
               Exists(fsStart, p) => fs[p].kind = fsStart[p].kind
    /\ \A p \in Under(SRoot) :
           (pc # "idle" /\ Exists(fsStart, p) /\ ~Exists(fs, p)) =>
               cmd.kind = "Restore" /\ cmd.delete_files

\* a Restore without deleteFiles has succeeded, has copied a file into S, and
\* an entry that only S had is still there
C13_Witness ==
    /\ Finished("Restore")
    /\ ~cmd.delete_files
    /\ result = Ok
    /\ HasMsg(msgs, "Increment", "FileCopied")
    /\ \E p \in Below(SRoot) :
          /\ Exists(fsStart, p)
          /\ ~Exists(fsStart, Counterpart(p, SRoot, DRoot))
          /\ Exists(fs, p)

(***************************************************************************)
(* C14.  Every step of a run that removes an entry removes it from below   *)
(* the root the purge cleans (the destination of the purge), and the root  *)
(* the purge compares with has, at the same relative path, no entry of the *)
(* same kind (no directory for a removed directory, no file for a removed  *)
(* file); and no step of the purge creates, modifies or deletes anything   *)
(* under the root it compares with.                                        *)
(***************************************************************************)
InPurge == pc \in {"purge", "purgeDirs", "purgeFiles"}

PurgeStepAsClaimed ==
    /\ \A p \in AllPaths :
          (Exists(fs, p) /\ ~Exists(fs', p)) =>
              /\ InPurge
              /\ p \in Below(ToRoot(cmd))
              /\ fs[Counterpart(p, ToRoot(cmd), FromRoot(cmd))].kind # fs[p].kind
    /\ InPurge => \A p \in Under(FromRoot(cmd)) : fs'[p] = fs[p]

C14_PurgeDeletesOnlyWhatSourceLacks == [][PurgeStepAsClaimed]_vars

\* a Sync has purged a directory and a file from its destination
C14_Witness ==
    /\ Finished("Sync")
    /\ HasMsg(msgs, "Increment", "DeletedDir")
    /\ HasMsg(msgs, "Increment", "DeletedFile")
    /\ \E p \in Below(DRoot) : Exists(fsStart, p) /\ ~Exists(fs, p)

(***************************************************************************)
(* Vocabulary of the claims about a walker iterated on its own.            *)
(***************************************************************************)
\* the positions of yielded that hold Ok(path), Err(..) with this kind
OkAt(i) == yielded[i].tag = "ok"
ErrAt(i, kind) == yielded[i].tag = "err" /\ yielded[i].error.kind = kind
Positions == 1..Len(yielded)

StrictlyUnder(p, d) == StartsWith(p, d) /\ p # d

\* the walk is over: next() has returned None
WalkOver == pc \in {"walked", "ended"}

(***************************************************************************)
(* C15.  The walker discovers parent-first in both modes: in               *)
(* DirectoriesOnly mode a directory is yielded before every directory      *)
(* below it; in FilesOnly mode the files of a directory are yielded before *)
(* the files of every directory below it.                                  *)
(***************************************************************************)
C15_ParentFirst ==
    \A i, j \in Positions :
        (OkAt(i) /\ OkAt(j)) =>
            /\ (rd.readdir_type = "DirectoriesOnly"
                  /\ StrictlyUnder(yielded[j].path, yielded[i].path)) => i < j
            /\ (rd.readdir_type = "FilesOnly"
                  /\ StrictlyUnder(Parent(yielded[j].path), Parent(yielded[i].path)))
                   => i < j

\* a walk in DirectoriesOnly mode has yielded three nested directories
C15_Witness ==
    /\ WalkOver
    /\ rd.readdir_type = "DirectoriesOnly"
    /\ \E i, j, k \in Positions :
          /\ OkAt(i) /\ OkAt(j) /\ OkAt(k)
          /\ StrictlyUnder(yielded[j].path, yielded[i].path)
          /\ StrictlyUnder(yielded[k].path, yielded[j].path)

(***************************************************************************)
(* C16.  On a tree that is read without errors (no directory that cannot   *)
(* be listed, no entry whose read fails), the walker in FilesOnly mode     *)
(* yields every entry that is not a directory exactly once and never a     *)
(* directory; in DirectoriesOnly mode it yields every directory strictly   *)
(* below the root exactly once and never the root or a file; and after the *)
(* last item next() returns None, whenever it is called.                   *)
(***************************************************************************)
ErrorFree(f) == \A p \in DOMAIN f : f[p] # Broken /\ f[p] # Dir(FALSE)

\* what a walker of this mode has to yield on the tree f
ToYield(f, readdir_type) ==
    IF readdir_type = "FilesOnly"
    THEN {p \in DOMAIN f : Exists(f, p) /\ ~IsDir(f, p)}
    ELSE {p \in DOMAIN f \ {SRoot} : IsDir(f, p)}

YieldedPaths == {yielded[i].path : i \in Positions}

C16_YieldsEveryEntryOnce ==
    ErrorFree(fs) =>
        /\ \A i \in Positions : OkAt(i)
        /\ \A i, j \in Positions : yielded[i].path = yielded[j].path => i = j
        /\ YieldedPaths \subseteq ToYield(fs, rd.readdir_type)
        /\ WalkOver =>
              /\ YieldedPaths = ToYield(fs, rd.readdir_type)
              /\ WalkNext(fs, rd).item = ItemNone

\* a tree with a directory and two or more files has been read without errors
\* in FilesOnly mode, and next() has been called again after the end
C16_Witness ==
    /\ pc = "ended"
    /\ ErrorFree(fs)
    /\ rd.readdir_type = "FilesOnly"
    /\ Len(yielded) >= 2
    /\ \E p \in DOMAIN fs \ {SRoot} : IsDir(fs, p)

(***************************************************************************)
(* C17.  A queued directory that cannot be opened yields one error item,   *)
(* CannotReadDirectoryContent with not_processed = that directory, and     *)
(* never a second one (it is not retried); nothing below it is yielded;    *)
(* and the walk goes on: when it is over, everything that lies in the      *)
(* directories that could be opened has been yielded.                      *)
(***************************************************************************)
\* the walker gets to p: every directory above p can be listed
Reached(f, p) == \A k \in 1..(Len(p) - 1) : CanReadDir(f, SubSeq(p, 1, k))

\* the queued directories that cannot be opened
FailQueued(f) == {d \in DOMAIN f : f[d] = Dir(FALSE) /\ Reached(f, d)}

ErrorsFor(d) ==
    {i \in Positions : ErrAt(i, "CannotReadDirectoryContent")
                          /\ yielded[i].error.not_processed = d}

C17_UnreadableDirectoryYieldsOneError ==
    /\ \A d \in FailQueued(fs) :
          /\ Cardinality(ErrorsFor(d)) <= 1
          /\ WalkOver => Cardinality(ErrorsFor(d)) = 1
          /\ \A i \in Positions :
                /\ OkAt(i) => ~StrictlyUnder(yielded[i].path, d)
                /\ ~StrictlyUnder(yielded[i].error.not_processed, d)
                /\ ~StartsWith(yielded[i].error.at, d)
    /\ WalkOver =>
          {p \in ToYield(fs, rd.readdir_type) : Reached(fs, p) /\ fs[p] \notin {Dir(FALSE), Broken}}
              \subseteq {yielded[i].path : i \in {j \in Positions : OkAt(j)}}

\* a directory that holds an entry could not be opened, and the walk has
\* yielded a path after the error
C17_Witness ==
    /\ WalkOver
    /\ \E d \in FailQueued(fs) :
          /\ \E p \in DOMAIN fs : Parent(p) = d /\ Exists(fs, p)
          /\ \E i \in ErrorsFor(d) : \E j \in Positions : i < j /\ OkAt(j)

(***************************************************************************)
(* C18.  A read error on one entry of a directory yields one error item,   *)
(* CannotGetDirEntry tagged with the directory being read and without      *)
(* not_processed, and does not end the walk: when the walk is over, the    *)
(* other entries of that directory and the queued directories have been    *)
(* enumerated as well.                                                     *)
(***************************************************************************)
\* the entries of d whose read fails, when the walker gets to list d
BrokenIn(f, d) ==
    {p \in DOMAIN f : Parent(p) = d /\ f[p] = Broken /\ Reached(f, p) /\ CanReadDir(f, d)}

EntryErrorsIn(d) ==
    {i \in Positions : ErrAt(i, "CannotGetDirEntry") /\ yielded[i].error.at = d}

C18_EntryErrorDoesNotEndTheWalk ==
    /\ \A d \in DOMAIN fs :
          /\ Cardinality(EntryErrorsIn(d)) <= Cardinality(BrokenIn(fs, d))
          /\ WalkOver => Cardinality(EntryErrorsIn(d)) = Cardinality(BrokenIn(fs, d))
    /\ \A i \in Positions :
          ErrAt(i, "CannotGetDirEntry") => yielded[i].error.not_processed = NoPath
    /\ WalkOver =>
          \A p \in ToYield(fs, rd.readdir_type) :
              (Reached(fs, p) /\ (IsFile(fs, p) \/ CanReadDir(fs, p))) =>
                  \E i \in Positions : OkAt(i) /\ yielded[i].path = p

\* after the error for an entry of a directory, the walk in FilesOnly mode has
\* yielded another entry of that directory and a file of a directory below it
C18_Witness ==
    /\ WalkOver
    /\ rd.readdir_type = "FilesOnly"
    /\ \E d \in DOMAIN fs : \E i \in EntryErrorsIn(d) : \E j, k \in Positions :
          /\ i < j /\ OkAt(j) /\ Parent(yielded[j].path) = d
          /\ i < k /\ OkAt(k) /\ StrictlyUnder(Parent(yielded[k].path), d)

(***************************************************************************)
(* C19.  The aggregated error a run returns holds one ProcessPathError per *)
(* failed path: no two of its elements name the same path; a source        *)
(* directory that cannot be opened is in it once.                          *)
(***************************************************************************)
C19_OneErrorPerFailedPath ==
    (pc = "done" /\ result.kind = "FileBackupErrors") =>
        \A i, j \in 1..Len(result.errors) :
            (/\ result.errors[i].not_processed # NoPath
             /\ result.errors[i].not_processed = result.errors[j].not_processed)
                => i = j

(***************************************************************************)
(* C20.  During directory mirroring, once a directory has failed with      *)
(* DestinationForSourceDirExistsAsFile or CannotCreateDestinationDir, no   *)
(* message and no error is produced for a directory below it, and nothing  *)
(* is created below its counterpart.                                       *)
(***************************************************************************)
\* create_all_directories_in_destination is in its loop or has just returned
Mirroring == pc \in {"mirrorLoop", "copy"}

MirrorFailed(d) ==
    \E i \in 1..Len(errors) :
        /\ errors[i].not_processed = d
        /\ errors[i].kind \in {"DestinationForSourceDirExistsAsFile",
                               "CannotCreateDestinationDir"}

DescendantDirs(d) == {e \in AllPaths : StrictlyUnder(e, d) /\ IsDir(fsStart, e)}

NoMessageFor(e) == \A i \in 1..Len(msgs) : msgs[i].source # e

NothingCreatedUnder(d) ==
    \A p \in AllPaths :
        StrictlyUnder(p, Counterpart(d, FromRoot(cmd), ToRoot(cmd))) => fs[p] = fsStart[p]

C20_FailedDirectorySilencesDescendants ==
    Mirroring =>
        \A d \in Below(FromRoot(cmd)) :
            MirrorFailed(d) =>
                /\ NothingCreatedUnder(d)
                /\ \A e \in DescendantDirs(d) :
                      /\ NoMessageFor(e)
                      /\ \A i \in 1..Len(errors) : errors[i].not_processed # e

\* C20 as amended: once a directory has failed with one of the two errors, no
\* creation is attempted and no message is produced for a directory below it,
\* nothing is created below its counterpart, and the only error produced for a
\* directory below it is the walker's CannotReadDirectoryContent, when that
\* directory cannot be listed.
C20_FailedDirectoryStopsCreationBelow ==
    Mirroring =>
        \A d \in Below(FromRoot(cmd)) :
            MirrorFailed(d) =>
                /\ NothingCreatedUnder(d)
                /\ \A e \in DescendantDirs(d) :
                      /\ NoMessageFor(e)
                      /\ \A i \in 1..Len(errors) :
                            errors[i].not_processed = e =>
                                /\ errors[i].kind = "CannotReadDirectoryContent"
                                /\ ~CanReadDir(fsStart, e)

\* the mirroring has returned: a directory has failed, and the walker has
\* yielded a directory below it, which can be listed
C20_Witness ==
    /\ pc = "copy"
    /\ \E d \in Below(FromRoot(cmd)) :
          /\ MirrorFailed(d)
          /\ \E e \in DescendantDirs(d) : CanReadDir(fsStart, e)

(***************************************************************************)
(* C21.  In the copy phase a source file whose path lies under a directory *)
(* that failed to mirror is skipped: no message of the change detection or *)
(* of the copy is sent for it, its counterpart is left as it was, and no   *)
(* ProcessPathError is recorded for it.                                    *)
(***************************************************************************)
\* the mirroring has recorded an error that names the directory d
FailedToMirror(d) ==
    /\ IsDir(fsStart, d)
    /\ \E i \in 1..Len(produced) :
          /\ produced[i].not_processed = d
          /\ produced[i].kind \in {"DestinationForSourceDirExistsAsFile",
                                   "CannotCreateDestinationDir",
                                   "CannotReadDirectoryContent"}

FilesUnderFailed ==
    {p \in Below(FromRoot(cmd)) :
        /\ IsFile(fsStart, p)
        /\ \E d \in Below(FromRoot(cmd)) : StrictlyUnder(p, d) /\ FailedToMirror(d)}

InBackup == pc \in {"copy", "copyLoop"} \/ (pc = "done" /\ cmd.kind = "Backup")

DirDeletionMsg(i) ==
    msgs[i].what \in {"StartDeletingDir", "DeletedDir", "DirectoryAlreadyDeleted"}

C22_AncestorsAreDeletedFirst ==
    /\ pc = "purgeDirs" =>
          \A i, j \in 1..Len(todo) : StrictlyUnder(todo[i], todo[j]) => j < i
    /\ \A i, j \in 1..Len(msgs) :
          (/\ DirDeletionMsg(i)
           /\ DirDeletionMsg(j)
           /\ StrictlyUnder(msgs[j].destination, msgs[i].destination)) =>
              /\ i < j
              /\ msgs[i].what = "DeletedDir" => msgs[j].what = "DirectoryAlreadyDeleted"
    /\ \A i \in 1..Len(msgs) : \A k \in 1..Len(produced) :
          (/\ msgs[i].what = "DeletedDir"
           /\ StrictlyUnder(produced[k].not_processed, msgs[i].destination)) =>
              produced[k].kind # "CannotDeleteDirectory"

\* a purge has deleted a directory and has met, later in its list, a directory
\* that lay below it
C22_Witness ==
    \E i, j \in 1..Len(msgs) :
        /\ msgs[i].what = "DeletedDir"
        /\ msgs[j].what = "DirectoryAlreadyDeleted"
        /\ StrictlyUnder(msgs[j].destination, msgs[i].destination)

(***************************************************************************)
(* C23.  The purge does not delete one by one the files of a directory it  *)
(* has deleted: for a path below a deleted directory it sends neither      *)
(* Info(StartDeletingFile) nor Increment(DeletedFile) and records no       *)
(* CannotDeleteFile; the list of files to delete holds no such path, and a *)
(* CannotDeleteFile error names a file that is still there.                *)
(***************************************************************************)
DeletedDirs == {msgs[i].destination : i \in {j \in 1..Len(msgs) : msgs[j].what = "DeletedDir"}}

UnderDeletedDir(p) == \E d \in DeletedDirs : StrictlyUnder(p, d)

C23_NoFileDeletionUnderDeletedDirectory ==
    /\ \A i \in 1..Len(msgs) :
          msgs[i].what \in {"StartDeletingFile", "DeletedFile"} =>
              ~UnderDeletedDir(msgs[i].destination)
    /\ \A k \in 1..Len(produced) :
          produced[k].kind = "CannotDeleteFile" =>
              /\ ~UnderDeletedDir(produced[k].not_processed)
              /\ IsFile(fs, produced[k].not_processed)
    /\ pc = "purgeFiles" => \A i \in 1..Len(todo) : ~UnderDeletedDir(todo[i])

\* a purge has ended that deleted a directory holding a file, and a file
\* elsewhere one by one
C23_Witness ==
    /\ pc = "done"
    /\ HasMsg(msgs, "Increment", "DeletedFile")
    /\ \E d \in DeletedDirs : \E p \in AllPaths : StrictlyUnder(p, d) /\ IsFile(fsStart, p)

(***************************************************************************)
(* C24.  skip_copy, for the file the copy phase is about to handle and     *)
(* whatever the environment answers: when the destination exists and the   *)
(* metadata of exactly one of the two files cannot be read, it sends       *)
(* Warning(CannotGetMetadata) and nothing else and decides to copy; when   *)
(* the destination is absent it decides to copy and sends nothing.  In the *)
(* messages of a run, Warning(CannotGetMetadata) is followed at once by    *)
(* Info(StartCopingFile) for the same file, and no warning of the change   *)
(* detection names a destination that was absent.                          *)
(***************************************************************************)
SkipCopyAsClaimed(source_file, destination_file) ==
    \A sourceOk, metaOk, hashOk \in BOOLEAN :
        \E sk \in {SkipCopy(fs, source_file, destination_file,
                            IF sourceOk THEN FileMetaData(fs, source_file) ELSE None,
                            metaOk, hashOk)} :
            /\ (Exists(fs, destination_file) /\ sourceOk # metaOk) =>
                  /\ ~sk.skip
                  /\ sk.msgs = <<Warning("CannotGetMetadata", source_file, destination_file)>>
            /\ ~Exists(fs, destination_file) => (~sk.skip /\ sk.msgs = <<>>)

C24_UnreadableMetadataMeansCopy ==
    /\ pc = "copyLoop" =>
          \E n \in {WalkNext(fs, rd).item} :
              n.tag = "ok" =>
                  SkipCopyAsClaimed(n.path, Counterpart(n.path, FromRoot(cmd), ToRoot(cmd)))
    /\ \A i \in 1..Len(msgs) :
          (msgs[i].type = "Warning" /\ msgs[i].what = "CannotGetMetadata") =>
              /\ i < Len(msgs)
              /\ msgs[i + 1] = Info("StartCopingFile", msgs[i].source, msgs[i].destination)
    /\ \A i \in 1..Len(msgs) :
          (msgs[i].type = "Warning" /\ msgs[i].what \in {"CannotGetMetadata", "CannotGetHash"})
              => Exists(fsStart, msgs[i].destination)

\* a run has ended in which the metadata of one of two files could not be read
\* and the file was copied, and a file whose destination was absent was copied
C24_Witness ==
    /\ pc = "done"
    /\ \E i \in 1..Len(msgs) :
          /\ msgs[i].what = "CannotGetMetadata"
          /\ HasMsgFor(msgs, "Increment", "FileCopied", msgs[i].source)
    /\ \E i \in 1..Len(msgs) :
          /\ msgs[i].what = "FileCopied"
          /\ ~Exists(fsStart, msgs[i].destination)

(***************************************************************************)
(* Vocabulary of the claims about the buffers of the file streams.         *)
(***************************************************************************)
\* the source files the walker of the copy phase yields and the stream does
\* not pass over (they lie under no directory that was not mirrored)
FilesToHandle ==
    {p \in Below(FromRoot(cmd)) :
        IsFile(fs, p) /\ Reached(fs, p) /\ ~UnderNotExisting(unreach, p)}

\* the messages with which the handling of the file p begins
Beginnings(p) ==
    {i \in 1..Len(msgs) :
        /\ msgs[i].source = p
        /\ msgs[i].what \in {"SkippingFileNoModification", "StartCopingFile"}}

InFlightPaths == {inflight[i].path : i \in {j \in 1..Len(inflight) : inflight[j].tag = "ok"}}

CopyPhaseOver == HasMsg(msgs, "End", "CopingFiles")

(***************************************************************************)
(* C25.  Each source file enumerated in the copy phase is handled by one   *)
(* future, once: while the phase runs no file is twice in the buffer, a    *)
(* file in the buffer has not been handled yet, and no file has been       *)
(* handled twice; when the phase is over every file to handle has been     *)
(* handled exactly once.  No two files in the buffer have the same         *)
(* destination path.                                                       *)
(***************************************************************************)
C25_EachFileHandledOnce ==
    /\ \A i, j \in 1..Len(inflight) :
          (i # j /\ inflight[i].tag = "ok" /\ inflight[j].tag = "ok") =>
              /\ inflight[i].path # inflight[j].path
              /\ pc = "copyLoop" =>
                    GetDestinationFilePath(ToRoot(cmd), FromRoot(cmd), inflight[i].path).path
                      # GetDestinationFilePath(ToRoot(cmd), FromRoot(cmd),
                                               inflight[j].path).path
    /\ pc = "copyLoop" => \A p \in InFlightPaths : Beginnings(p) = {}
    /\ pc \in {"copyLoop", "purge", "purgeDirs", "purgeFiles", "done"} =>
          \A p \in FilesToHandle :
              /\ Cardinality(Beginnings(p)) <= 1
              /\ CopyPhaseOver => Cardinality(Beginnings(p)) = 1

\* two files are in the buffer of the copy phase at once
C25_Witness ==
    /\ pc = "copyLoop"
    /\ Cardinality(InFlightPaths \cap FilesToHandle) = 2

(***************************************************************************)
(* C26.  At every moment of the copy phase and of the file deletion the    *)
(* buffer holds at most cpu_count() files, and cpu_count() is at least 1;  *)
(* so each of the two phases goes on while files remain, and comes to its  *)
(* end.                                                                    *)
(***************************************************************************)
PoolBound == cpus >= 1 /\ Len(inflight) <= cpus

C26_PoolIsBoundedAndProgresses ==
    /\ []PoolBound
    /\ (pc = "copyLoop") ~> (pc # "copyLoop")
    /\ (pc = "purgeFiles") ~> (pc # "purgeFiles")

\* the buffer is full and a file is still waiting to be deleted
C26_Witness ==
    /\ pc = "purgeFiles"
    /\ Len(inflight) = cpus
    /\ todo # <<>>

(***************************************************************************)
(* C27.  The phases of a command never overlap.  End(CreatingDirectories)  *)
(* and every Increment(DirCreated) come before Start(CopingFiles) and      *)
(* before any Increment(FileCopied); and before End(CopingFiles) nothing   *)
(* is deleted and no message of a deletion is sent.                        *)
(***************************************************************************)
IsMsg(i, type, what) == msgs[i].type = type /\ msgs[i].what = what

OfMirroring(i) == IsMsg(i, "End", "CreatingDirectories") \/ IsMsg(i, "Increment", "DirCreated")

OfCopying(i) == IsMsg(i, "Start", "CopingFiles") \/ IsMsg(i, "Increment", "FileCopied")

OfDeleting(i) ==
    \/ msgs[i].type = "Start" /\ msgs[i].what \in {"DeletingDirs", "DeletingFiles"}
    \/ msgs[i].what \in {"StartDeletingDir", "DeletedDir", "DirectoryAlreadyDeleted",
                         "StartDeletingFile", "DeletedFile"}

NothingDeleted == \A p \in AllPaths : Exists(fsStart, p) => Exists(fs, p)

C27_PhasesDoNotOverlap ==
    /\ \A j \in 1..Len(msgs) :
          OfCopying(j) =>
              /\ \E i \in 1..(j - 1) : IsMsg(i, "End", "CreatingDirectories")
              /\ \A i \in 1..Len(msgs) : OfMirroring(i) => i < j
    /\ \A j \in 1..Len(msgs) :
          OfDeleting(j) => \E i \in 1..(j - 1) : IsMsg(i, "End", "CopingFiles")
    /\ (pc # "idle" /\ ~HasMsg(msgs, "End", "CopingFiles")) => NothingDeleted

\* a Sync that created a directory, copied a file and deleted a file
C27_Witness ==
    /\ cmd.kind = "Sync"
    /\ HasMsg(msgs, "Increment", "DirCreated")
    /\ HasMsg(msgs, "Increment", "FileCopied")
    /\ HasMsg(msgs, "Increment", "DeletedFile")

(***************************************************************************)
(* C28.  For every path p a command enumerates under a root R, stripping R *)
(* from p succeeds and the counterpart of p is the other root joined with  *)
(* the relative path of p: get_destination_file_path(D, S, S/r) = D/r.  So *)
(* no run produces an InvariantBroken error.                               *)
(***************************************************************************)
\* the paths the walker of the running phase hands out next or has handed out
EnumeratedNow ==
    {inflight[i].path : i \in {j \in 1..Len(inflight) : inflight[j].tag = "ok"}}
        \cup (IF pc \in {"mirrorLoop", "copyLoop"} /\ WalkNext(fs, rd).item.tag = "ok"
              THEN {WalkNext(fs, rd).item.path}
              ELSE {})

CounterpartAsClaimed(R, O, p) ==
    \E r \in RelPaths \cup {<<>>} :
        /\ p = R \o r
        /\ GetDestinationFilePath(O, R, p).ok
        /\ GetDestinationFilePath(O, R, p).path = O \o r

\* the two collections of purge(), for directories and for files
PurgeCollections ==
    {TryCollect(fs, TryNew(fs, root, t), {}) : root \in {FromRoot(cmd), ToRoot(cmd)},
                                               t \in {"DirectoriesOnly", "FilesOnly"}}

AllErrorsNow ==
    {produced[i] : i \in 1..Len(produced)} \cup {errors[i] : i \in 1..Len(errors)}
        \cup {fileErrors[i] : i \in 1..Len(fileErrors)}
        \cup {result.errors[i] : i \in 1..Len(result.errors)}

C28_CounterpartIsOtherRootPlusRelativePath ==
    /\ pc \in {"mirrorLoop", "copyLoop"} =>
          \A p \in EnumeratedNow : CounterpartAsClaimed(FromRoot(cmd), ToRoot(cmd), p)
    /\ pc \in {"purge", "purgeDirs"} =>
          \A c \in PurgeCollections : ~c.ok => c.error.kind # "InvariantBroken"
    /\ pc \in {"purgeDirs", "purgeFiles"} =>
          \A i \in 1..Len(todo) : \E r \in RelPaths : todo[i] = ToRoot(cmd) \o r
    /\ \A e \in AllErrorsNow : e.kind # "InvariantBroken"
    /\ result.kind # "InvariantBroken"

\* a Restore is about to copy D/b/c, whose counterpart is S/b/c
C28_Witness ==
    /\ cmd.kind = "Restore"
    /\ pc = "copyLoop"
    /\ WalkNext(fs, rd).item = ItemOk(DRoot \o <<"b", "c">>)
    /\ GetDestinationFilePath(ToRoot(cmd), FromRoot(cmd), DRoot \o <<"b", "c">>).path
          = SRoot \o <<"b", "c">>

(***************************************************************************)
(* C29.  get_paths_in_destinatination_but_not_in_source returns exactly    *)
(* the paths under the destination root whose relative path is enumerated  *)
(* under the destination root and not under the source root, each once and *)
(* in ascending order; it returns nothing when every relative path of the  *)
(* destination is also one of the source.                                  *)
(***************************************************************************)
KindOf(readdir_type) == IF readdir_type = "DirectoriesOnly" THEN "dir" ELSE "file"

\* what purge() would be given for one kind of entry in the tree as it is now
PathsNow(readdir_type) ==
    GetPathsInDestinationButNotInSource(fs, TryNew(fs, FromRoot(cmd), readdir_type),
                                        TryNew(fs, ToRoot(cmd), readdir_type))

OnlyInDestination(readdir_type) ==
    RelPathsOf(fs, ToRoot(cmd), KindOf(readdir_type))
        \ RelPathsOf(fs, FromRoot(cmd), KindOf(readdir_type))

Ascending(paths) == \A i, j \in 1..Len(paths) : i < j => PathLess(paths[i], paths[j])

PathsAsClaimed(readdir_type) ==
    \E r \in {PathsNow(readdir_type)}, only \in {OnlyInDestination(readdir_type)} :
        r.ok =>
            /\ {r.paths[i] : i \in 1..Len(r.paths)} = {ToRoot(cmd) \o rel : rel \in only}
            /\ Len(r.paths) = Cardinality(only)
            /\ Ascending(r.paths)
            /\ RelPathsOf(fs, ToRoot(cmd), KindOf(readdir_type))
                  \subseteq RelPathsOf(fs, FromRoot(cmd), KindOf(readdir_type))
                  => r.paths = <<>>

\* purge() asks for the directories when it begins and for the files when the
\* directories have been dealt with
C29_DifferenceIsExactAndSorted ==
    /\ (pc = "purge" /\ CanReadDir(fs, FromRoot(cmd)) /\ CanReadDir(fs, ToRoot(cmd)))
          => PathsAsClaimed("DirectoriesOnly") /\ PathsAsClaimed("FilesOnly")
    /\ (pc = "purgeDirs" /\ todo = <<>>
            /\ CanReadDir(fs, FromRoot(cmd)) /\ CanReadDir(fs, ToRoot(cmd)))
          => PathsAsClaimed("FilesOnly")
    /\ (pc = "purgeDirs" /\ deleted = <<>> /\ errors = <<>>
            /\ msgs[Len(msgs)].type = "Start")
          => todo = PathsNow("DirectoriesOnly").paths

\* purge() is given two directories of the destination, the upper one first
C29_Witness ==
    /\ pc = "purgeDirs"
    /\ cmd.kind = "Sync"
    /\ todo = <<DRoot \o <<"b">>, DRoot \o <<"b", "c">>>>
    /\ todo = PathsNow("DirectoriesOnly").paths

(***************************************************************************)
(* C30.  Each file a future of the copy phase handles has exactly one      *)
(* outcome: Increment(SkippingFileNoModification), or Info(StartCopingFile)*)
(* followed by Increment(FileCopied) or else by a CannotCopyFile error.    *)
(* When the modified time cannot be set after a copy, only                 *)
(* Warning(CannotCopyModifiedTime) is added, after FileCopied, and no      *)
(* error.                                                                  *)
(***************************************************************************)
MsgsOf(p, type, what) ==
    {i \in 1..Len(msgs) : msgs[i].type = type /\ msgs[i].what = what /\ msgs[i].source = p}

ErrorsOf(p) == {i \in 1..Len(produced) : produced[i].not_processed = p}

CopyErrorsOf(p) == {i \in ErrorsOf(p) : produced[i].kind = "CannotCopyFile"}

Skipped(p) == MsgsOf(p, "Increment", "SkippingFileNoModification")

Started(p) == MsgsOf(p, "Info", "StartCopingFile")

CopyDone(p) == MsgsOf(p, "Increment", "FileCopied")

TimeNotSet(p) == MsgsOf(p, "Warning", "CannotCopyModifiedTime")

OneOutcome(p) ==
    \E skipped \in {Skipped(p)}, started \in {Started(p)}, done \in {CopyDone(p)},
       errs \in {ErrorsOf(p)}, late \in {TimeNotSet(p)} :
        /\ Cardinality(skipped) + Cardinality(started) <= 1
        /\ Cardinality(done) + Cardinality(CopyErrorsOf(p)) = Cardinality(started)
        /\ \A i \in done : \E j \in started : j < i
        /\ skipped # {} => errs = {}
        /\ done # {} => errs = {}
        /\ Cardinality(late) <= Cardinality(done)
        /\ \A i \in late : \E j \in done : j < i

C30_OneOutcomePerFile ==
    pc \notin {"idle", "mirror", "mirrorLoop", "copy"} =>
        /\ \A p \in Below(FromRoot(cmd)) : OneOutcome(p)
        /\ CopyPhaseOver =>
              \A p \in FilesToHandle :
                  Cardinality(Skipped(p)) + Cardinality(Started(p)) = 1

\* one file was skipped, another was copied and its modified time could not be set
C30_Witness ==
    /\ CopyPhaseOver
    /\ \E p, q \in FilesToHandle :
          /\ Skipped(p) # {}
          /\ CopyDone(q) # {}
          /\ TimeNotSet(q) # {}

(***************************************************************************)
(* C31.  The total n of Start(n, CopingFiles) is the number of files under *)
(* the root that is read, and between that Start and End(CopingFiles) the  *)
(* number of Increment messages plus the number of errors the phase        *)
(* recorded is n.                                                          *)
(***************************************************************************)
IndexOf(type, what) == CHOOSE i \in 1..Len(msgs) : IsMsg(i, type, what)

FilesUnderSource == {p \in Below(FromRoot(cmd)) : IsFile(fs, p)}

IncrementsOfCopying ==
    {i \in 1..Len(msgs) :
        /\ msgs[i].type = "Increment"
        /\ IndexOf("Start", "CopingFiles") < i
        /\ i < IndexOf("End", "CopingFiles")}

C31_CopyTotalIsExact ==
    CopyPhaseOver =>
        /\ msgs[IndexOf("Start", "CopingFiles")].total = Cardinality(FilesUnderSource)
        /\ Cardinality(IncrementsOfCopying) + Len(fileErrors)
              = msgs[IndexOf("Start", "CopingFiles")].total

(***************************************************************************)
(* C32.  Start(n, DeletingDirs) announces the number of directories that   *)
(* only the destination has, and each of these n directories produces      *)
(* exactly one of Increment(DeletedDir), Increment(DirectoryAlreadyDeleted) *)
(* and a CannotDeleteDirectory error, before End(DeletingDirs).            *)
(***************************************************************************)
DirOutcomeMsgs(d) ==
    {i \in 1..Len(msgs) :
        /\ msgs[i].type = "Increment"
        /\ msgs[i].what \in {"DeletedDir", "DirectoryAlreadyDeleted"}
        /\ msgs[i].destination = d}

DirOutcomeErrors(d) ==
    {k \in 1..Len(produced) :
        produced[k].kind = "CannotDeleteDirectory" /\ produced[k].not_processed = d}

DirOutcomes(d) == Cardinality(DirOutcomeMsgs(d)) + Cardinality(DirOutcomeErrors(d))

DirsWithOutcome == {d \in AllPaths : DirOutcomes(d) = 1}

DeletingDirsBegun == HasMsg(msgs, "Start", "DeletingDirs")

DeletingDirsOver == HasMsg(msgs, "End", "DeletingDirs")

C32_EachDirectoryToDeleteHasOneOutcome ==
    /\ (pc = "purgeDirs" /\ msgs[Len(msgs)].type = "Start") =>
          /\ msgs[Len(msgs)].total = Cardinality(OnlyInDestination("DirectoriesOnly"))
          /\ {todo[i] : i \in 1..Len(todo)}
                = {ToRoot(cmd) \o r : r \in OnlyInDestination("DirectoriesOnly")}
    /\ DeletingDirsBegun =>
          /\ \A d \in AllPaths : DirOutcomes(d) <= 1
          /\ \A d \in AllPaths : \A i \in DirOutcomeMsgs(d) :
                /\ IndexOf("Start", "DeletingDirs") < i
                /\ DeletingDirsOver => i < IndexOf("End", "DeletingDirs")
          /\ pc = "purgeDirs" =>
                /\ \A i \in 1..Len(todo) : DirOutcomes(todo[i]) = 0
                /\ Cardinality(DirsWithOutcome) + Len(todo)
                      = msgs[IndexOf("Start", "DeletingDirs")].total
          /\ DeletingDirsOver =>
                Cardinality(DirsWithOutcome) = msgs[IndexOf("Start", "DeletingDirs")].total

\* the directories are dealt with: of two or more, one lay inside a deleted one
C32_Witness ==
    /\ DeletingDirsOver
    /\ msgs[IndexOf("Start", "DeletingDirs")].total >= 2
    /\ HasMsg(msgs, "Increment", "DirectoryAlreadyDeleted")

(***************************************************************************)
(* C33.  Restore with delete_files deletes below S only what a backup D    *)
(* that existed before the command lacks: when the root D does not exist   *)
(* as the command begins, no file and no directory of S is deleted.        *)
(***************************************************************************)
C33_RestoreWithoutBackupDeletesNothing ==
    (cmd.kind = "Restore" /\ cmd.delete_files /\ ~Exists(fsStart, DRoot)) =>
        \A p \in Under(SRoot) : Exists(fsStart, p) => Exists(fs, p)

(***************************************************************************)
(* C34.  Whenever copy_or_skip_if_same is called for a file, the source    *)
(* path is no directory and the destination path computed for it is no     *)
(* existing directory: the two assertions at its start hold.               *)
(***************************************************************************)
\* the file for which the copy phase calls copy_or_skip_if_same next, if any
NextToCopy ==
    IF pc = "copyLoop" /\ WalkNext(fs, rd).item.tag = "ok"
           /\ ~UnderNotExisting(unreach, WalkNext(fs, rd).item.path)
           /\ GetDestinationFilePath(ToRoot(cmd), FromRoot(cmd), WalkNext(fs, rd).item.path).ok
    THEN {WalkNext(fs, rd).item.path}
    ELSE {}

C34_CopyAssertionsHold ==
    \A source_file \in NextToCopy :
        /\ ~IsDir(fs, source_file)
        /\ ~IsDir(fs, GetDestinationFilePath(ToRoot(cmd), FromRoot(cmd), source_file).path)

(***************************************************************************)
(* C35.  Whenever run() enters the mirroring of the directories or the     *)
(* copying of the files, after the roots were validated, the root that is  *)
(* read and the root that is written are both directories: the assertions  *)
(* at the start of the two phases hold.                                    *)
(***************************************************************************)
C35_RootsAreDirectoriesInEachPhase ==
    pc \in {"mirror", "copy"} => (IsDir(fs, FromRoot(cmd)) /\ IsDir(fs, ToRoot(cmd)))

(***************************************************************************)
(* C36.  The purge never takes what it deletes from a partial enumeration. *)
(* When the enumeration of the directories of either tree yields an error, *)
(* the purge deletes nothing at all.  When the enumeration of the files of *)
(* either tree yields an error, the purge deletes no file.                 *)
(***************************************************************************)
\* a directory below one of the two roots cannot be listed: a walker over that
\* root yields an error
EnumerationHasError ==
    \E root \in {FromRoot(cmd), ToRoot(cmd)} :
        \E p \in Below(root) : IsDir(fs, p) /\ ~fs[p].readable

DeletingFilesBegun == HasMsg(msgs, "Start", "DeletingFiles")

FileEnumerationFailed ==
    /\ pc = "done"
    /\ DeletingDirsOver
    /\ ~DeletingFilesBegun
    /\ result.kind = "FileBackupErrors"

NoFileDeletionMsg ==
    \A i \in 1..Len(msgs) : msgs[i].what \notin {"StartDeletingFile", "DeletedFile"}

\* C36 as it is stated: after a failed enumeration of the files every file is
\* still there
C36_FailedEnumerationDeletesNoFile ==
    FileEnumerationFailed =>
        /\ NoFileDeletionMsg
        /\ \A p \in AllPaths : IsFile(fsStart, p) => Exists(fs, p)

PurgeBeginsAsClaimed ==
    /\ (pc = "purge" /\ EnumerationHasError) =>
          (pc' = "done" /\ fs' = fs /\ msgs' = msgs)
    /\ (pc = "purgeDirs" /\ todo = <<>>) =>
          /\ fs' = fs
          /\ pc' = "purgeFiles" =>
                (PathsNow("FilesOnly").ok /\ todo' = PathsNow("FilesOnly").paths)
          /\ pc' # "purgeFiles" =>
                (pc' = "done" /\ ~HasMsg(msgs', "Start", "DeletingFiles"))

\* C36 with the files of the deleted directories set apart: a failed
\* enumeration of the directories leaves everything, a failed enumeration of
\* the files leaves every file that lies in no directory the purge has deleted,
\* and the files to delete are those of the whole enumeration or none
C36_NoDeletionFromPartialEnumeration ==
    /\ [][PurgeBeginsAsClaimed]_vars
    /\ []((pc = "done" /\ CopyPhaseOver /\ ~DeletingDirsBegun) => NothingDeleted)
    /\ [](FileEnumerationFailed =>
            /\ NoFileDeletionMsg
            /\ \A p \in AllPaths :
                  (IsFile(fsStart, p) /\ ~UnderDeletedDir(p)) => Exists(fs, p))

\* the files could not be enumerated after a directory had been deleted
C36_Witness ==
    /\ FileEnumerationFailed
    /\ DeletedDirs # {}
    /\ \E p \in AllPaths : IsFile(fsStart, p) /\ ~UnderDeletedDir(p)

(***************************************************************************)
(* C37.  Restore, with delete_files or without, never modifies the backup  *)
(* tree: every file and directory that is under D before the run is there  *)
(* unchanged after it, and nothing is created below D.                     *)
(***************************************************************************)
C37_RestoreLeavesBackupAlone ==
    cmd.kind = "Restore" =>
        \A p \in Under(DRoot) :
            /\ Exists(fsStart, p) => fs[p] = fsStart[p]
            /\ (p # DRoot /\ ~Exists(fsStart, p)) => ~Exists(fs, p)

\* a Restore with delete_files has ended that copied a file to S and deleted
\* a file of S
C37_Witness ==
    /\ pc = "done"
    /\ cmd.kind = "Restore"
    /\ HasMsg(msgs, "Increment", "FileCopied")
    /\ HasMsg(msgs, "Increment", "DeletedFile")

(***************************************************************************)
(* C38.  Every creation of a directory in the destination and every copy   *)
(* of a file is attempted only when the parent of the path it writes       *)
(* exists as a directory under the root that is written.                   *)
(***************************************************************************)
\* the directory tokio::fs::create_dir is called for next, if any
NextToCreate ==
    IF pc = "mirrorLoop" /\ WalkNext(fs, rd).item.tag = "ok"
           /\ ~UnderFailed(errors, WalkNext(fs, rd).item.path)
           /\ GetDestinationFilePath(ToRoot(cmd), FromRoot(cmd), WalkNext(fs, rd).item.path).ok
           /\ ~Exists(fs, GetDestinationFilePath(ToRoot(cmd), FromRoot(cmd),
                                                 WalkNext(fs, rd).item.path).path)
    THEN {GetDestinationFilePath(ToRoot(cmd), FromRoot(cmd), WalkNext(fs, rd).item.path).path}
    ELSE {}

\* the path tokio::fs::copy may be called for next, if any
NextCopyTarget ==
    {GetDestinationFilePath(ToRoot(cmd), FromRoot(cmd), p).path : p \in NextToCopy}

ParentIsDirectoryUnderRoot(target) ==
    /\ IsDir(fs, Parent(target))
    /\ StartsWith(Parent(target), ToRoot(cmd))

C38_ParentExistsBeforeWrite ==
    \A target \in NextToCreate \cup NextCopyTarget : ParentIsDirectoryUnderRoot(target)

(***************************************************************************)
(* C39.  Every command that has begun comes to its end with a result, and  *)
(* by then every Progress::Start it has sent is followed by the            *)
(* Progress::End of the same phase.                                        *)
(***************************************************************************)
Running == pc \notin {"idle", "done"}

StartHasItsEnd(i) ==
    \E j \in (i + 1)..Len(msgs) : msgs[j].type = "End" /\ msgs[j].what = msgs[i].what

EveryStartHasItsEnd ==
    \A i \in 1..Len(msgs) : msgs[i].type = "Start" => StartHasItsEnd(i)

RunTerminates == Running ~> (pc = "done" /\ result # NoResult)

C39_RunEndsWithEveryPhaseEnded ==
    /\ RunTerminates
    /\ [](pc = "done" => EveryStartHasItsEnd)

(***************************************************************************)
(* C40.  In the legacy binary an entry of a directory x whose read fails   *)
(* does not make x unreachable: every other directory and file under x     *)
(* that a walker returns is still created or copied (or has an error of    *)
(* its own), unless it lies under a directory that failed otherwise.       *)
(***************************************************************************)
LegacyDestination(p) == Join(DRoot, StripPrefix(p, SRoot))

\* a walker returned p
Enumerated(p) == \E i \in 1..Len(yielded) : yielded[i] = ItemOk(p)

\* an entry of x could not be read
EntryErrorIn(x) ==
    \E q \in LegacyPaths : Parent(q) = x /\ fsStart[q] = Broken /\ CanReadDir(fsStart, x)

LegacyErrorFor(p, kinds) ==
    \E i \in 1..Len(errors) : errors[i].not_processed = p /\ errors[i].kind \in kinds

\* p lies under a directory that could not be created or listed
UnderOtherFailure(p) ==
    \E d \in LegacyPaths :
        /\ d # p
        /\ StartsWith(p, d)
        /\ LegacyErrorFor(d, {"CannotCreateDestinationDir",
                              "DestinationForSourceDirExistsAsFile",
                              "CannotReadDirectoryContent"})

LegacyHandled(p) ==
    IF IsDir(fsStart, p)
    THEN \/ IsDir(fs, LegacyDestination(p))
         \/ LegacyErrorFor(p, {"CannotCreateDestinationDir",
                               "DestinationForSourceDirExistsAsFile"})
    ELSE \/ HasMsgFor(msgs, "Info", "Copy", p)
         \/ HasMsgFor(msgs, "Info", "NotCopying", p)
         \/ LegacyErrorFor(p, {"CannotCopyFile"})

LegacyRanToEnd == pc = "done" /\ result.kind \in {"Ok", "FileBackupErrors"}

C40_EntryErrorLeavesDirectoryReachable ==
    LegacyRanToEnd =>
        \A x \in LegacyPaths :
            EntryErrorIn(x) =>
                \A p \in LegacyPaths :
                    (p # x /\ StartsWith(p, x) /\ Enumerated(p) /\ ~UnderOtherFailure(p))
                        => LegacyHandled(p)

====
